---------------------------- MODULE Spec2Model ----------------------------
(***************************************************************************)
(* A model of the owrust protocol engine (alfille/owrust): the 24-byte     *)
(* header codec, query/response framing, the token loop detector of the    *)
(* relay, the client's connection manager and its single-frame and         *)
(* multi-frame receive.                                                     *)
(*                                                                         *)
(* 32-bit words.  TLC integers are 32-bit signed, so every header word is  *)
(* held as the i32 value of its bit pattern (-2^31 .. 2^31-1).  A Rust     *)
(* field of type i32 is that value; a Rust field of type u32 with the same *)
(* bits is 2^32 + value when the value is negative.  Unsigned tests are    *)
(* therefore written on the bit pattern: (u > 0) is (w # 0), and           *)
(* (u as usize) is w when w >= 0 and a length of at least 2^31 otherwise.  *)
(***************************************************************************)
EXTENDS Integers, Sequences, FiniteSets, TLC

VARIABLES
    \* ---- relay topology (message/server.rs) ----
    upstream,     \* relay -> the node its OwMessage targets (a relay or Owserver)
    conns,        \* inbound connections accepted and not yet handled: set of records
    fwd,          \* [query id -> [relay -> number of times the relay forwarded it]]
    relaylog,     \* the handle_query outcomes so far: set of records
    served,       \* queries that reached the real owserver: set of [qid, tokens]
    nq,           \* number of queries injected by clients so far
    \* ---- client and connection manager (client.rs, message/stream.rs) ----
    revision,     \* which receive routine the client is built with
    persistence,  \* OwClient.persistence
    stream,       \* OwClient.stream.stream: 0 = None, else a socket id
    nsock,        \* sockets opened so far (successful TcpStream::connect calls)
    inbuf,        \* [socket id -> bytes delivered by the peer and not yet read]
    peerClosed,   \* [socket id -> the peer has closed its end]
    written,      \* [socket id -> number of queries written to it]
    pc,           \* "idle" between API calls, "await" between send and receive
    cur,          \* the API call in progress (msg: the bytes of its query)
    last,         \* outcome of the last completed API call
    ncalls,       \* API calls started so far
    npeer,        \* frames the peer has put on the wire so far
    owserver,     \* OwClient.owserver: the target address sends connect to
    opened,       \* [socket id -> the target it was connected to]
    config,       \* OwClient's configuration fields and the flags made of them
    qry,          \* an OwQuery on its way along a chain of relays
    selftoken,    \* the token of this instance (self.token of OwClient)
    hdr,          \* a message header on its way through send and get_plus_ping
    calc,         \* a library function applied on its own: its input and result
    \* ---- one relay process and its workers (server.rs, console.rs) ----
    process,      \* "running", or "exit0" / "exit1" after process::exit
    consoleErr,   \* the result of the last write to the console
    template,     \* the client listen() clones for every accepted connection
    wk,           \* [worker -> the state of its handle_query]
    upbuf,        \* [upstream socket id -> bytes delivered and not yet read]
    upclosed,     \* [upstream socket id -> the upstream server closed it]
    nupf          \* frames the upstream servers have sent so far

relayVars  == <<upstream, conns, fwd, relaylog, served, nq>>
clientVars == <<revision, persistence, stream, nsock, inbuf, peerClosed,
                written, pc, cur, last, ncalls, npeer, owserver, opened>>
serveVars  == <<process, consoleErr, template, wk, upbuf, upclosed, nupf>>
apiVars    == <<config, qry, selftoken, hdr, calc>>
vars == <<relayVars, clientVars, serveVars, apiVars>>

----------------------------------------------------------------------------
(* Bounds of the model *)

MaxRelays  == 3     \* relay instances in the topology
MaxQueries == 1     \* queries the clients inject
MaxCalls   == 2     \* API calls one client makes
MaxFrames  == 3     \* frames the peer sends in one behaviour
MaxTargets == 2     \* target addresses a connection can be pointed at
MaxWorkers == 2     \* connections the relay process accepts
MaxUpFrames == 3    \* frames the upstream servers send in one behaviour

----------------------------------------------------------------------------
(* Program constants *)

HSIZE         == 24
SERVERMESSAGE == 65536
SERVERTOKENS  == 65535
SENDVERSION   == 0
DEFAULTSIZE   == 65536
NOP           == 1
READ          == 2
WRITE         == 3
DIR           == 4
SIZE          == 5
PRESENT       == 6
DIRALL        == 7
GET           == 8
DIRALLSLASH   == 9
GETSLASH      == 10
TOKENLEN      == 16
COMMA         == 44
PERSISTENCE   == 4
BUS_RET       == 2
FORMAT_F_I    == 0
FORMAT_FI     == 16777216
FORMAT_F_I_C  == 33554432
FORMAT_F_IC   == 50331648
FORMAT_FI_C   == 67108864
FORMAT_FIC    == 83886080
TEMPERATURE_C == 0
TEMPERATURE_F == 65536
TEMPERATURE_K == 131072
TEMPERATURE_R == 196608
PRESSURE_MBAR == 0
PRESSURE_ATM  == 262144
PRESSURE_MMHG == 524288
PRESSURE_INHG == 786432
PRESSURE_PSI  == 1048576
PRESSURE_PA   == 1310720

----------------------------------------------------------------------------
(* Header codec: u32::to_be_bytes / from_be_bytes on the bit pattern *)

\* the bytes of a word, least significant first
ToLeBytes(w) ==
    LET hi == w \div 16777216
    IN  << w % 256,
           (w % 65536) \div 256,
           (w % 16777216) \div 65536,
           IF hi < 0 THEN hi + 256 ELSE hi >>

\* u.to_be_bytes() for one header word
ToBeBytes(w) ==
    LET hi == w \div 16777216
    IN  << IF hi < 0 THEN hi + 256 ELSE hi,
           (w % 16777216) \div 65536,
           (w % 65536) \div 256,
           w % 256 >>

\* u32::from_be_bytes(buffer[i..i+4]) (also i32::from_be_bytes and "as i32")
FromBeBytes(b) ==
    (IF b[1] >= 128 THEN b[1] - 256 ELSE b[1]) * 16777216
        + b[2] * 65536 + b[3] * 256 + b[4]

\* rcv.payload > 0 on a u32 field
U32Positive(w) == w # 0

\* read_exact of (w as usize) bytes succeeds only if that many bytes arrive;
\* a bit pattern with the top bit set asks for at least 2^31 bytes
U32Available(w, have) == w >= 0 /\ w <= have

\* version & SERVERMESSAGE == SERVERMESSAGE
HasTokens(version) == (version \div SERVERMESSAGE) % 2 = 1

\* version & SERVERTOKENS
TokenCount(version) == version % (SERVERTOKENS + 1)

Drop(s, n) == SubSeq(s, n + 1, Len(s))
Take(s, n) == SubSeq(s, 1, n)

\* the six header words, flat_map(to_be_bytes)
HeaderBytes(h) ==
    ToBeBytes(h[1]) \o ToBeBytes(h[2]) \o ToBeBytes(h[3]) \o
    ToBeBytes(h[4]) \o ToBeBytes(h[5]) \o ToBeBytes(h[6])

HeaderWord(buffer, i) == FromBeBytes(SubSeq(buffer, 4 * i - 3, 4 * i))

RECURSIVE Flatten(_)
\* bytemuck::cast_slice(&tokenlist): the tokens as one flat byte run
Flatten(toks) ==
    IF toks = << >> THEN << >> ELSE Head(toks) \o Flatten(Tail(toks))

RECURSIVE Chunks(_, _)
\* n successive read_exact(&mut tok) of 16 bytes each
Chunks(bytes, n) ==
    IF n = 0 THEN << >>
    ELSE <<Take(bytes, TOKENLEN)>> \o Chunks(Drop(bytes, TOKENLEN), n - 1)

Contains(list, t) == \E i \in 1..Len(list) : list[i] = t

----------------------------------------------------------------------------
(* Tokens: 16 bytes per instance (make_token is an MD5 digest; here the     *)
(* digest of instance k is 16 copies of the byte k)                         *)

Token(k) == [i \in 1..TOKENLEN |-> k]

Relays   == 1..MaxRelays
\* the relay the clients connect to (the topology behind it is arbitrary)
EntryRelay == 1
Owserver == 0
ClientTokenId == 200

----------------------------------------------------------------------------
(* OwQuery (message/query.rs) *)

\* a faulty add_token that puts the token in front of the list
AddTokenFront(q, token) ==
    [q EXCEPT !.version = SERVERMESSAGE + Len(q.tokenlist) + 1,
              !.tokenlist = <<token>> \o q.tokenlist]

\* OwQuery::add_token
AddToken(q, token) ==
    LET toks == IF HasTokens(q.version) THEN TokenCount(q.version) ELSE 0
        cnt  == toks + 1
    IN  [q EXCEPT !.version = IF cnt = SERVERMESSAGE THEN SERVERMESSAGE
                              ELSE SERVERMESSAGE + cnt,
                  !.tokenlist = Append(q.tokenlist, token)]

\* OwQuery::add_path : CString::new(path)?.as_bytes() (the bytes before the NUL)
AddPath(q, path) ==
    [q EXCEPT !.content = path, !.payload = Len(path)]

\* a faulty add_data that leaves the payload at the length of the path
AddDataSizeOnly(q, data) ==
    [q EXCEPT !.content = q.content \o data,
              !.size = Len(data)]

\* OwQuery::add_data
AddData(q, data) ==
    [q EXCEPT !.content = q.content \o data,
              !.size = Len(data),
              !.payload = q.payload + Len(data)]

\* OwQuery::new with path = Some(path); value = << >> stands for None
QueryNew(flag, mtype, path, hasValue, value, token) ==
    LET m0 == [version |-> SENDVERSION, payload |-> 0, mtype |-> mtype,
               flags |-> flag, size |-> DEFAULTSIZE, offset |-> 0,
               content |-> << >>, tokenlist |-> << >>]
        m1 == AddPath(m0, path)
        m2 == IF hasValue THEN AddData(m1, value) ELSE m1
    IN  AddToken(m2, token)

\* OwQuery::send : the bytes handed to write_all
QuerySend(q) ==
    HeaderBytes(<<q.version, q.payload, q.mtype, q.flags, q.size, q.offset>>)
        \o (IF q.payload > 0 THEN q.content ELSE << >>)
        \o Flatten(q.tokenlist)

NoQuery == [version |-> 0, payload |-> 0, mtype |-> 0, flags |-> 0, size |-> 0,
            offset |-> 0, content |-> << >>, tokenlist |-> << >>]

\* a faulty loop test that looks at the latest hop only
LoopDetectedLast(tokenlist, token) ==
    tokenlist # << >> /\ tokenlist[Len(tokenlist)] = token

\* the loop test of get_plus_ping: rcv.tokenlist.contains(&token)
LoopDetected(tokenlist, token) == Contains(tokenlist, token)

QueryHeader(buf) ==
    [version |-> HeaderWord(buf, 1), payload |-> HeaderWord(buf, 2),
     mtype |-> HeaderWord(buf, 3), flags |-> HeaderWord(buf, 4),
     size |-> HeaderWord(buf, 5), offset |-> HeaderWord(buf, 6),
     content |-> << >>, tokenlist |-> << >>]

\* the result of get_plus_ping.  status: "ok", "io" (a read_exact failed: a
\* short read or the timeout), "loop"
QueryRead(status, rcv, rest) == [status |-> status, rcv |-> rcv, rest |-> rest]

\* get_plus_ping after the tokens: "test token", then "Add our token"
QueryLoopTest(r2, rest, token) ==
    IF LoopDetected(r2.tokenlist, token) THEN QueryRead("loop", r2, rest)
    ELSE QueryRead("ok", AddToken(r2, token), rest)

\* get_plus_ping after the content: "read tokens"; b2 is what follows the content
QueryTokens(r1, toks, b2, token) ==
    IF Len(b2) < toks * TOKENLEN THEN QueryRead("io", r1, << >>)
    ELSE QueryLoopTest([r1 EXCEPT !.tokenlist = Chunks(b2, toks)],
                       Drop(b2, toks * TOKENLEN), token)

\* get_plus_ping after the header: "read payload" when payload > 0 (an i32)
QueryContent(h, need, buf, token) ==
    IF Len(buf) - HSIZE < need THEN QueryRead("io", h, << >>)
    ELSE QueryTokens([h EXCEPT !.content = SubSeq(buf, HSIZE + 1, HSIZE + need)],
                     IF HasTokens(h.version) THEN TokenCount(h.version) ELSE 0,
                     Drop(buf, HSIZE + need), token)

QueryPayload(h, buf, token) ==
    QueryContent(h, IF h.payload > 0 THEN h.payload ELSE 0, buf, token)

\* OwQuery::get_plus_ping on the bytes that arrive on the inbound stream
QueryGetPlusPing(buf, token) ==
    IF Len(buf) < HSIZE THEN QueryRead("io", NoQuery, << >>)
    ELSE QueryPayload(QueryHeader(buf), buf, token)

RECURSIVE QueryGet(_, _)
\* the body of the loop of OwQuery::get
QueryGetStep(r, token) ==
    IF r.status # "ok" THEN r
    ELSE IF r.rcv.payload >= 0 THEN r
    ELSE QueryGet(r.rest, token)

\* OwQuery::get : get_plus_ping until a query with payload >= 0
QueryGet(buf, token) == QueryGetStep(QueryGetPlusPing(buf, token), token)

----------------------------------------------------------------------------
(* The relay: OwServerInstance::handle_query (message/server.rs), one       *)
(* worker per accepted connection.  Each relay instance r owns Token(r).    *)

\* the clients that can open a connection to a relay: OwQuery::new (one token,
\* version 0x10001) and the token-less OwMessageSend of client/send.rs
ClientKinds == {"query", "legacy"}

ClientQuery(kind, mtype) ==
    LET q == QueryNew(BUS_RET, mtype, <<47, 65>>, FALSE, << >>, Token(ClientTokenId))
    IN  IF kind = "query" THEN q
        ELSE [q EXCEPT !.version = SENDVERSION, !.tokenlist = << >>]

\* a connection accepted by listen(): the bytes the peer wrote on it; qid and
\* sent (the sender's token list) are history fields
Conn(qid, dst, q, bytes) ==
    [qid |-> qid, dst |-> dst, sent |-> q.tokenlist, bytes |-> bytes]

\* A client connects to relay entry and writes one query; with cut the client
\* dies before the last byte is written.
ClientInject(entry, kind, mtype, cut) ==
    /\ nq < MaxQueries
    /\ LET q     == ClientQuery(kind, mtype)
           bytes == QuerySend(q)
       IN  conns' = conns \cup
              {Conn(nq + 1, entry, q, IF cut THEN Take(bytes, Len(bytes) - 1) ELSE bytes)}
    /\ nq' = nq + 1
    /\ UNCHANGED <<upstream, fwd, relaylog, served, clientVars, serveVars, apiVars>>

\* the effect of handle_query on connection c of relay r, got being the
\* result of OwQuery::get: the query goes upstream when it was read and the
\* connect of send_packet succeeded
Relayed(c, r, got, connected) ==
    /\ relaylog' = relaylog \cup
          {[qid |-> c.qid, relay |-> r, sent |-> c.sent,
            status |-> got.status, tokens |-> got.rcv.tokenlist,
            version |-> got.rcv.version,
            inb |-> c.bytes,
            out |-> IF got.status = "ok" /\ connected
                    THEN QuerySend(got.rcv) ELSE << >>,
            forwarded |-> (got.status = "ok" /\ connected)]}
    /\ fwd' = IF got.status = "ok" /\ connected
              THEN [fwd EXCEPT ![c.qid][r] = @ + 1] ELSE fwd
    /\ conns' = (conns \ {c}) \cup
          (IF got.status = "ok" /\ connected /\ upstream[r] # Owserver
           THEN {Conn(c.qid, upstream[r], got.rcv, QuerySend(got.rcv))} ELSE {})
    /\ served' = served \cup
          (IF got.status = "ok" /\ connected /\ upstream[r] = Owserver
           THEN {[qid |-> c.qid, tokens |-> got.rcv.tokenlist]} ELSE {})

\* handle_query up to and including send_packet: read the query with the
\* instance's token, then relay it to the configured target.  connected is
\* the outcome of TcpStream::connect inside send_packet (its error is dropped
\* by "let _ =").
RelayHandleQuery(c, connected) ==
    /\ c \in conns
    /\ c.dst \in Relays
    /\ Relayed(c, c.dst, QueryGet(c.bytes, Token(c.dst)), connected)
    /\ UNCHANGED <<upstream, nq, clientVars, serveVars, apiVars>>

----------------------------------------------------------------------------
(* OwResponse (message/response.rs) *)

Response(payload, ret, content) ==
    [version |-> 0, payload |-> payload, ret |-> ret, flags |-> 0,
     size |-> Len(content), offset |-> 0, content |-> content]

NoResponse == Response(0, 0, << >>)

\* OwResponse::send : the bytes handed to write_all
ResponseSend(f) ==
    HeaderBytes(<<f.version, f.payload, f.ret, f.flags, f.size, f.offset>>)
        \o (IF f.payload > 0 THEN f.content ELSE << >>)

ResponseHeader(buf) ==
    [version |-> HeaderWord(buf, 1), payload |-> HeaderWord(buf, 2),
     ret |-> HeaderWord(buf, 3), flags |-> HeaderWord(buf, 4),
     size |-> HeaderWord(buf, 5), offset |-> HeaderWord(buf, 6),
     content |-> << >>]

\* one frame read off the stream.  used: the bytes the read_exact calls took
\* from the stream (a failing read_exact takes whatever had arrived)
FrameRead(ok, rcv, buf, used) ==
    [ok |-> ok, rcv |-> rcv, rest |-> Drop(buf, used), used |-> used]

\* the history entry of one frame read
ReadEntry(r) ==
    [ok |-> r.ok, payload |-> r.rcv.payload, clen |-> Len(r.rcv.content),
     used |-> r.used]

\* get_plus_ping after the header: "read payload" when payload > 0 (an i32)
ResponseContent(h, buf) ==
    IF h.payload > 0
    THEN IF Len(buf) - HSIZE < h.payload
         THEN FrameRead(FALSE, h, buf, Len(buf))
         ELSE FrameRead(TRUE,
                 [h EXCEPT !.content = SubSeq(buf, HSIZE + 1, HSIZE + h.payload)],
                 buf, HSIZE + h.payload)
    ELSE FrameRead(TRUE, h, buf, HSIZE)

\* OwResponse::get_plus_ping
ResponseGetPlusPing(buf) ==
    IF Len(buf) < HSIZE THEN FrameRead(FALSE, NoResponse, buf, Len(buf))
    ELSE ResponseContent(ResponseHeader(buf), buf)

\* the result of a frame getter: the frame, the unread bytes, the reads made
Got(ok, r, reads) == [ok |-> ok, rcv |-> r.rcv, rest |-> r.rest, reads |-> reads]

RECURSIVE ResponseGetFrom(_, _)
\* the body of the loop of OwResponse::get on the frame r just read
ResponseGetStep(r, reads) ==
    IF ~r.ok THEN Got(FALSE, r, reads)
    ELSE IF r.rcv.payload >= 0 THEN Got(TRUE, r, reads)
    ELSE ResponseGetFrom(r.rest, reads)

\* the frame read is entered in the history of reads
Noted(r, reads) == Append(reads, ReadEntry(r))

ResponseGetNoted(r, reads) == ResponseGetStep(r, Noted(r, reads))

\* OwResponse::get : get_plus_ping until a frame with payload >= 0
ResponseGetFrom(buf, reads) == ResponseGetNoted(ResponseGetPlusPing(buf), reads)

----------------------------------------------------------------------------
(* OwMessageReceive (client/receive.rs): payload is a u32 *)

\* get_packet after the content: "read tokens" when the version announces them
PacketTokens(r1, toks, buf) ==
    IF Len(buf) - HSIZE - Len(r1.content) < toks * TOKENLEN
    THEN FrameRead(FALSE, r1, buf, Len(buf))
    ELSE FrameRead(TRUE, r1, buf, HSIZE + Len(r1.content) + toks * TOKENLEN)

\* get_packet after the header: "read payload" when payload > 0 (a u32)
PacketContent(h, buf) ==
    IF U32Positive(h.payload)
    THEN IF ~U32Available(h.payload, Len(buf) - HSIZE)
         THEN FrameRead(FALSE, h, buf, Len(buf))
         ELSE PacketTokens(
                 [h EXCEPT !.content = SubSeq(buf, HSIZE + 1, HSIZE + h.payload)],
                 IF HasTokens(h.version) THEN TokenCount(h.version) ELSE 0, buf)
    ELSE PacketTokens(h, IF HasTokens(h.version) THEN TokenCount(h.version) ELSE 0,
                      buf)

\* one pass of the loop of get_packet with my_token = None: header, content
\* when payload > 0 (unsigned), then the tokens the version announces
GetPacketOnce(buf) ==
    IF Len(buf) < HSIZE THEN FrameRead(FALSE, NoResponse, buf, Len(buf))
    ELSE PacketContent(ResponseHeader(buf), buf)

RECURSIVE GetPacketFrom(_, _)
\* the end of the loop of get_packet: "continue" on (payload as i32) < 0
GetPacketStep(r, reads) ==
    IF ~r.ok THEN Got(FALSE, r, reads)
    ELSE IF r.rcv.payload < 0 THEN GetPacketFrom(r.rest, reads)
    ELSE Got(TRUE, r, reads)

GetPacketNoted(r, reads) == GetPacketStep(r, Noted(r, reads))

\* get_packet
GetPacketFrom(buf, reads) == GetPacketNoted(GetPacketOnce(buf), reads)

----------------------------------------------------------------------------
(* The client's receive (client.rs, message/stream.rs).  The repository     *)
(* holds two builds of it: client.rs reads frames with                      *)
(* OwMessageReceive::get_packet ("client"), message/stream.rs with          *)
(* OwResponse::get ("message").                                             *)

Revisions == {"client", "message"}

GetFrame(rev, buf, reads) ==
    IF rev = "client" THEN GetPacketFrom(buf, reads) ELSE ResponseGetFrom(buf, reads)

\* get_msg_single
GetMsgSingle(rev, buf) == GetFrame(rev, buf, << >>)

\* a faulty aggregation that appends without touching the trailing null
AggregatePlain(full, rcv) ==
    [full EXCEPT !.content = full.content \o rcv.content,
                 !.payload = full.payload + rcv.payload]

\* the body of the loop of get_msg_many: trailing null -> comma, append, add
Aggregate(full, rcv) ==
    [full EXCEPT !.content = [full.content EXCEPT ![full.payload] = COMMA]
                                 \o rcv.content,
                 !.payload = full.payload + rcv.payload]

\* a faulty end test that never sees the end marker
EndMarkerNever(rcv) == rcv.payload = 0 /\ rcv.content # << >>

\* if rcv.payload == 0 { return Ok(full_rcv) }
EndMarker(rcv) == rcv.payload = 0

RECURSIVE ManyLoop(_, _, _, _)
\* the body of the loop of get_msg_many on the frame r just received
ManyStep(rev, full, r) ==
    IF ~r.ok THEN r
    ELSE IF EndMarker(r.rcv) THEN [r EXCEPT !.rcv = full]
    ELSE ManyLoop(rev, Aggregate(full, r.rcv), r.rest, r.reads)

ManyLoop(rev, full, buf, reads) == ManyStep(rev, full, GetFrame(rev, buf, reads))

\* get_msg_many after its first frame
ManyFirst(rev, first) ==
    IF ~first.ok THEN first
    ELSE IF EndMarker(first.rcv) THEN first
    ELSE ManyLoop(rev, first.rcv, first.rest, first.reads)

\* get_msg_many
GetMsgMany(rev, buf) == ManyFirst(rev, GetFrame(rev, buf, << >>))

\* a client whose dirall and dirallslash also receive with send_get_many
ReceiveManyDirClass(mtype) == mtype \in {DIR, DIRALL, DIRALLSLASH}

\* dir() receives with send_get_many; read, write, present, size, get and
\* dirall (through get_value) receive with send_get_single
ReceiveMany(mtype) == mtype = DIR

\* send_get_single / send_get_many after send_packet: the receive of the
\* operation mtype on the bytes buf
ReceiveOf(rev, mtype, buf) ==
    IF ReceiveMany(mtype) THEN GetMsgMany(rev, buf) ELSE GetMsgSingle(rev, buf)

Ops == {READ, WRITE, DIR, SIZE, PRESENT, DIRALL, GET, DIRALLSLASH, GETSLASH}

----------------------------------------------------------------------------
(* The client's send (client.rs send_packet, message/stream.rs) *)

\* make_flags with the default units and format (all zero bit groups)
MakeFlags(bare, persist) ==
    (IF bare THEN 0 ELSE BUS_RET) + (IF persist THEN PERSISTENCE ELSE 0)

\* the flag codes of make_flags
TemperatureCode(t) ==
    CASE t = "CELSIUS"   -> TEMPERATURE_C
      [] t = "FARENHEIT" -> TEMPERATURE_F
      [] t = "KELVIN"    -> TEMPERATURE_K
      [] t = "RANKINE"   -> TEMPERATURE_R
      [] t = "DEFAULT"   -> TEMPERATURE_C

\* pressure codes that reach into the bits of the temperature scale
PressureCodeOverlap(p) ==
    CASE p = "MBAR"    -> PRESSURE_MBAR
      [] p = "MMHG"    -> TEMPERATURE_K
      [] p = "INHG"    -> PRESSURE_INHG
      [] p = "ATM"     -> TEMPERATURE_F
      [] p = "PA"      -> PRESSURE_PA
      [] p = "PSI"     -> PRESSURE_PSI
      [] p = "DEFAULT" -> PRESSURE_MBAR

\* the code of the pressure unit
PressureCode(p) ==
    CASE p = "MBAR"    -> PRESSURE_MBAR
      [] p = "MMHG"    -> PRESSURE_MMHG
      [] p = "INHG"    -> PRESSURE_INHG
      [] p = "ATM"     -> PRESSURE_ATM
      [] p = "PA"      -> PRESSURE_PA
      [] p = "PSI"     -> PRESSURE_PSI
      [] p = "DEFAULT" -> PRESSURE_MBAR

FormatCode(f) ==
    CASE f = "FI"      -> FORMAT_FI
      [] f = "FdI"     -> FORMAT_F_I
      [] f = "FIC"     -> FORMAT_FIC
      [] f = "FIdC"    -> FORMAT_FI_C
      [] f = "FdIC"    -> FORMAT_F_IC
      [] f = "FdIdC"   -> FORMAT_F_I_C
      [] f = "DEFAULT" -> FORMAT_F_I

Temperatures == {"CELSIUS", "FARENHEIT", "KELVIN", "RANKINE", "DEFAULT"}
Pressures    == {"MBAR", "MMHG", "INHG", "ATM", "PA", "PSI", "DEFAULT"}
Formats      == {"FI", "FdI", "FIC", "FIdC", "FdIC", "FdIdC", "DEFAULT"}

RECURSIVE BitOr(_, _)
\* a | b on non-negative words
BitOr(a, b) ==
    IF a = 0 THEN b
    ELSE IF b = 0 THEN a
    ELSE (IF a % 2 = 1 \/ b % 2 = 1 THEN 1 ELSE 0)
             + 2 * BitOr(a \div 2, b \div 2)

\* make_flags: flags = 0, then "flags |=" for BUS_RET unless bare, for
\* PERSISTENCE, and for the codes of temperature, pressure and format
ClientFlags(cfg, persist) ==
    BitOr(BitOr(BitOr(MakeFlags(cfg.bare, persist),
                      TemperatureCode(cfg.temperature)),
                PressureCode(cfg.pressure)),
          FormatCode(cfg.format))

\* the configuration fields OwClient::new sets, and the flags it makes of them
Configured(t, p, f, bare, size, offset, persist) ==
    [temperature |-> t, pressure |-> p, format |-> f, bare |-> bare,
     size |-> size, offset |-> offset,
     flags |-> ClientFlags([temperature |-> t, pressure |-> p, format |-> f,
                            bare |-> bare], persist)]

NewConfig(persist) ==
    Configured("DEFAULT", "DEFAULT", "DEFAULT", FALSE, 0, 0, persist)

\* OwMessageSend::new (client/send.rs): no token list, version 0
MessageSendNew(flag, mtype, path, hasValue, value) ==
    LET m0 == [version |-> SENDVERSION, payload |-> 0, mtype |-> mtype,
               flags |-> flag, size |-> DEFAULTSIZE, offset |-> 0,
               content |-> << >>, tokenlist |-> << >>]
        m1 == AddPath(m0, path)
    IN  IF hasValue THEN AddData(m1, value) ELSE m1

\* the arguments of the calls: the path "/A" and the value "7"
CallPath  == <<47, 65>>
CallValue == <<55>>

\* make_read, make_write, ... : the query of one API call
MakeQuery(rev, persist, mtype) ==
    LET path  == CallPath
        value == CallValue
        flag  == MakeFlags(FALSE, persist)
    IN  IF rev = "client"
        THEN MessageSendNew(flag, mtype, path, mtype = WRITE, value)
        ELSE QueryNew(flag, mtype, path, mtype = WRITE, value, selftoken)

\* the target addresses; OwClient::new points the client at the first
Targets == 1..MaxTargets
DefaultTarget == 1

\* a connect that goes to the address the client was built with
ConnectToDefault(target) == DefaultTarget

\* connect: TcpStream::connect(&self.owserver)
ConnectTo(target) == target

\* s.write_all(&[]) : Write::write_all loops "while !buf.is_empty()", so with
\* an empty buffer it makes no write call and returns Ok(()) whatever the
\* state of the socket
WriteAllEmpty(s) == TRUE

\* a send_packet that keeps a socket whatever the persistence setting
ReuseAlways(persist, s) == s # 0 /\ WriteAllEmpty(s)

\* a send_packet that connects on every call
ReuseNever(persist, s) == persist /\ s # 0 /\ ~WriteAllEmpty(s)

\* send_packet keeps the socket it holds: persistence, a socket, probe Ok
ReuseSocket(persist, s) == persist /\ s # 0 /\ WriteAllEmpty(s)

CallEnd(mtype, s, connected, ok, err, rcv, reads, buf) ==
    [op |-> mtype, sock |-> s, connected |-> connected, ok |-> ok, err |-> err,
     payload |-> rcv.payload, ret |-> rcv.ret, content |-> rcv.content,
     reads |-> reads, buf |-> buf]

NoCall == [op |-> 0, sock |-> 0, connected |-> FALSE, msg |-> << >>]
NoLast == CallEnd(0, 0, FALSE, FALSE, "none", NoResponse, << >>, << >>)

\* send_packet of one API call.  connectOk: the outcome of TcpStream::connect
\* when one is made; writeOk: the outcome of msg.send (it can fail only on a
\* socket whose peer has gone).
SendPacketOf(q, mtype, connectOk, writeOk) ==
    /\ pc = "idle"
    /\ ncalls < MaxCalls
    /\ ncalls' = ncalls + 1
    /\ LET reuse == ReuseSocket(persistence, stream)
           s     == IF reuse THEN stream ELSE nsock + 1
           msg   == QuerySend(q)
       IN  IF ~reuse /\ ~connectOk
           THEN \* self.connect()? returned the error
                /\ writeOk
                /\ last' = CallEnd(mtype, stream, FALSE, FALSE, "connect",
                                   NoResponse, << >>, << >>)
                /\ UNCHANGED <<stream, nsock, inbuf, peerClosed, written, pc, cur,
                               opened>>
           ELSE /\ connectOk
                /\ opened' = IF reuse THEN opened
                             ELSE Append(opened, ConnectTo(owserver))
                /\ writeOk \/ (reuse /\ peerClosed[s])
                /\ stream' = s
                /\ nsock' = IF reuse THEN nsock ELSE nsock + 1
                /\ inbuf' = IF reuse THEN inbuf ELSE Append(inbuf, << >>)
                /\ peerClosed' = IF reuse THEN peerClosed ELSE Append(peerClosed, FALSE)
                /\ LET w == IF reuse THEN written ELSE Append(written, 0)
                   IN  written' = IF writeOk THEN [w EXCEPT ![s] = @ + 1] ELSE w
                /\ IF writeOk
                   THEN /\ pc' = "await"
                        /\ cur' = [op |-> mtype, sock |-> s, connected |-> ~reuse,
                                   msg |-> msg]
                        /\ last' = NoLast
                   ELSE /\ last' = CallEnd(mtype, s, ~reuse, FALSE, "write",
                                           NoResponse, << >>, << >>)
                        /\ UNCHANGED <<pc, cur>>
    /\ UNCHANGED <<revision, persistence, npeer, owserver, relayVars, serveVars,
                   apiVars>>

\* an API call on the path CallPath: make_read, make_write, ..., then
\* send_packet
SendPacket(mtype, connectOk, writeOk) ==
    SendPacketOf(MakeQuery(revision, persistence, mtype), mtype, connectOk,
                 writeOk)

\* a receive that reads again after an error instead of returning it
PropagateRetry(ok) == IF ok THEN "idle" ELSE "await"

\* "let rcv = ...get_packet(stream, None)?; Ok(rcv)": the call is over after
\* its receive, the error of a read being returned as the result is
Propagate(ok) == "idle"

\* get_msg_single / get_msg_many of the call in progress, on the bytes that
\* have arrived when the read returns (a read that lacks bytes ends with the
\* 5 s timeout or with end-of-file)
Received(r, buf) ==
    /\ inbuf' = [inbuf EXCEPT ![stream] = r.rest]
    /\ last' = CallEnd(cur.op, stream, cur.connected, r.ok,
                       IF r.ok THEN "none" ELSE "io", r.rcv, r.reads, buf)
    /\ pc' = Propagate(r.ok)

Receive ==
    /\ pc = "await"
    /\ Received(ReceiveOf(revision, cur.op, inbuf[stream]), inbuf[stream])
    /\ cur' = NoCall
    /\ UNCHANGED <<revision, persistence, stream, nsock, peerClosed, written,
                   ncalls, npeer, owserver, opened, relayVars, serveVars, apiVars>>

----------------------------------------------------------------------------
(* The peer of the client's socket *)

Ping  == Response(-1, 0, << >>)
End   == Response(0, 0, << >>)
DataA == Response(3, 0, <<47, 65, 0>>)
DataB == Response(4, 0, <<47, 66, 67, 0>>)

PeerFrames == {Ping, End, DataA, DataB}

\* the frames a peer is seen to die in: inside a header, inside a content
CutFrames == {End, DataA}

\* the peer writes one frame on the socket the client is reading; with cut it
\* dies before the last byte and the connection closes.  (Bytes written while
\* the client is between calls are read, if at all, by the next Receive: they
\* are the bytes written at the start of the next wait.)
PeerSend(f, cut) ==
    /\ pc = "await"
    /\ cut => f \in CutFrames
    /\ stream # 0
    /\ ~peerClosed[stream]
    /\ npeer < MaxFrames
    /\ npeer' = npeer + 1
    /\ LET bytes == ResponseSend(f)
       IN  inbuf' = [inbuf EXCEPT ![stream] =
                        @ \o (IF cut THEN Take(bytes, Len(bytes) - 1) ELSE bytes)]
    /\ peerClosed' = IF cut THEN [peerClosed EXCEPT ![stream] = TRUE] ELSE peerClosed
    /\ UNCHANGED <<revision, persistence, stream, nsock, written, pc, cur, last,
                   ncalls, owserver, opened, relayVars, serveVars, apiVars>>

\* the peer closes the connection
PeerClose ==
    /\ stream # 0
    /\ ~peerClosed[stream]
    /\ peerClosed' = [peerClosed EXCEPT ![stream] = TRUE]
    /\ UNCHANGED <<revision, persistence, stream, nsock, inbuf, written, pc, cur,
                   last, ncalls, npeer, owserver, opened, relayVars, serveVars, apiVars>>


\* a connection: Stream (the socket, 0 = None, and persist) and its target
Connection(target, persist, sock) ==
    [owserver |-> target, stream |-> [stream |-> sock, persist |-> persist]]

\* let mut tok: Token = [0u8; 16]
NoToken == Token(0)

\* the state of a worker slot no connection was accepted on
NoWorker ==
    [pc |-> "free", client |-> Connection(0, FALSE, 0), mtype |-> 0,
     inq |-> << >>, outq |-> << >>, taken |-> << >>, back |-> << >>,
     failed |-> FALSE, lost |-> FALSE, token |-> NoToken]

Workers == 1..MaxWorkers

ServeIdle ==
    /\ process = "running"
    /\ consoleErr = "ok"
    /\ template = Connection(DefaultTarget, FALSE, 0)
    /\ wk = [w \in Workers |-> NoWorker]
    /\ upbuf = << >>
    /\ upclosed = << >>
    /\ nupf = 0

\* no query has been built or received yet
Unbuilt == [q |-> NoQuery, adds |-> 0, from |-> "none", wire |-> 0]

\* a client that has made no call, whatever its token
ClientOff ==
    /\ qry = Unbuilt
    /\ revision = "message"
    /\ persistence = FALSE
    /\ stream = 0
    /\ nsock = 0
    /\ inbuf = << >>
    /\ peerClosed = << >>
    /\ written = << >>
    /\ pc = "idle"
    /\ cur = NoCall
    /\ last = NoLast
    /\ ncalls = 0
    /\ npeer = 0
    /\ owserver = DefaultTarget
    /\ opened = << >>
    /\ config = NewConfig(FALSE)

\* no header is on its way
NoHeader == [kind |-> "none", step |-> "none", words |-> << >>,
             bytes |-> << >>, got |-> << >>]

\* no function has been applied
NoCalc == [fn |-> "none"]

\* the instance is the entry relay
ClientIdle ==
    ClientOff /\ selftoken = Token(EntryRelay) /\ hdr = NoHeader /\ calc = NoCalc

\* any topology: every relay targets the owserver or a relay (itself and
\* cycles included)
InitRelay ==
    /\ upstream \in [Relays -> Relays \cup {Owserver}]
    /\ conns = {}
    /\ fwd = [q \in 1..MaxQueries |-> [r \in Relays |-> 0]]
    /\ relaylog = {}
    /\ served = {}
    /\ nq = 0
    /\ ClientIdle
    /\ ServeIdle

NextRelay ==
    \/ \E kind \in ClientKinds, cut \in BOOLEAN :
          /\ cut => kind = "query"
          /\ ClientInject(EntryRelay, kind, READ, cut)
    \/ \E c \in conns, connected \in BOOLEAN : RelayHandleQuery(c, connected)

SpecRelay == InitRelay /\ [][NextRelay]_vars

RelayIdle ==
    /\ upstream = [r \in Relays |-> Owserver]
    /\ conns = {}
    /\ fwd = [q \in 1..MaxQueries |-> [r \in Relays |-> 0]]
    /\ relaylog = {}
    /\ served = {}
    /\ nq = 0

InitClient ==
    /\ revision \in Revisions
    /\ persistence \in BOOLEAN
    /\ stream = 0
    /\ nsock = 0
    /\ inbuf = << >>
    /\ peerClosed = << >>
    /\ written = << >>
    /\ pc = "idle"
    /\ cur = NoCall
    /\ last = NoLast
    /\ ncalls = 0
    /\ npeer = 0
    /\ owserver = DefaultTarget
    /\ opened = << >>
    /\ config = NewConfig(persistence)
    /\ qry = Unbuilt
    /\ selftoken = Token(ClientTokenId)
    /\ hdr = NoHeader
    /\ calc = NoCalc
    /\ RelayIdle
    /\ ServeIdle

NextClient ==
    \/ \E mtype \in Ops, connectOk \in BOOLEAN, writeOk \in BOOLEAN :
          SendPacket(mtype, connectOk, writeOk)
    \/ Receive
    \/ \E f \in PeerFrames, cut \in BOOLEAN : PeerSend(f, cut)
    \/ PeerClose

SpecClient == InitClient /\ [][NextClient]_vars

----------------------------------------------------------------------------
(* The connection's configuration: set_target and set_persistence.  Their   *)
(* code is not in the source tree (only their callers are: parse_args.rs    *)
(* server_options and persist_options, server.rs handle_query); they are    *)
(* written from the specification: the mutation invalidates the socket.     *)

\* set_target(t)
SetTarget(t) ==
    /\ pc = "idle"
    /\ owserver' = t
    /\ stream' = 0
    /\ UNCHANGED <<revision, persistence, nsock, inbuf, peerClosed, written, pc,
                   cur, last, ncalls, npeer, opened, relayVars, serveVars, apiVars>>

\* set_persistence(p)
SetPersistence(p) ==
    /\ pc = "idle"
    /\ persistence' = p
    /\ stream' = 0
    /\ UNCHANGED <<revision, nsock, inbuf, peerClosed, written, pc, cur, last,
                   ncalls, npeer, owserver, opened, relayVars, serveVars, apiVars>>

\* a client that is reconfigured between its calls; its peers answer every
\* query with one whole frame or not at all
NextConn ==
    \/ \E connectOk \in BOOLEAN, writeOk \in BOOLEAN :
          SendPacket(READ, connectOk, writeOk)
    \/ Receive
    \/ PeerSend(DataA, FALSE)
    \/ PeerClose
    \/ \E t \in Targets : SetTarget(t)
    \/ \E p \in BOOLEAN : SetPersistence(p)

SpecConn == InitClient /\ [][NextConn]_vars

----------------------------------------------------------------------------
(* One relay process: listen() and its workers (client.rs listen,           *)
(* message/server.rs handle_query, console.rs).  Every accepted connection  *)
(* gets a thread that runs handle_query on a clone of the listening client. *)

\* a clone that keeps the socket of the original
StreamCloneShared(st) == st

\* impl Clone for Stream
StreamClone(st) == [stream |-> 0, persist |-> st.persist]

\* a clone that draws a token of its own
TokenCloneFresh(t) == Token(t[1] + 1)

\* #[derive(Clone)] on the client: the token is copied
TokenClone(t) == t

\* #[derive(Clone)] on the client: every field cloned
ClientClone(c) == [owserver |-> c.owserver, stream |-> StreamClone(c.stream)]

\* set_persistence on a Stream (written from the specification: the socket
\* is invalidated)
StreamSetPersistence(st, p) == [stream |-> 0, persist |-> p]

\* a console that swallows every write error
HandleIoResultIgnore(result) == "running"

\* handle_io_result: process::exit(0) on BrokenPipe, process::exit(1) on any
\* other error
HandleIoResult(result) ==
    IF result = "ok" THEN "running"
    ELSE IF result = "BrokenPipe" THEN "exit0" ELSE "exit1"

ConsoleResults == {"ok", "BrokenPipe", "other"}

\* a relay that treats every operation as a multi-frame one
OldDirTypeAll(mtype) == mtype \in Ops

\* let old_dir_type = rcv.mtype == OwQuery::DIR
OldDirType(mtype) == mtype = DIR

\* the queries the relay's clients send: <<operation, persistence flag, cut>>
ServedQueries ==
    {<<READ, TRUE, FALSE>>, <<READ, FALSE, TRUE>>, <<DIR, FALSE, FALSE>>,
     <<DIRALL, FALSE, FALSE>>}

\* listen(): a connection is accepted and a worker is spawned on a clone of
\* the listening client.  The client on the other end writes one query (with
\* cut it dies before the last byte).
Accept(w, mtype, persist, cut) ==
    /\ process = "running"
    /\ wk[w].pc = "free"
    /\ \A v \in 1..(w - 1) : wk[v].pc # "free"
    /\ wk' = [wk EXCEPT ![w] =
                 [NoWorker EXCEPT
                    !.pc = "query",
                    !.client = ClientClone(template),
                    !.token = TokenClone(selftoken),
                    !.inq = IF cut
                            THEN Take(QuerySend(QueryNew(MakeFlags(FALSE, persist),
                                     mtype, <<47, 65>>, FALSE, << >>,
                                     Token(ClientTokenId))), HSIZE + 1)
                            ELSE QuerySend(QueryNew(MakeFlags(FALSE, persist),
                                     mtype, <<47, 65>>, FALSE, << >>,
                                     Token(ClientTokenId)))]]
    /\ UNCHANGED <<process, consoleErr, template, upbuf, upclosed, nupf,
                   relayVars, clientVars, apiVars>>

\* handle_query after OwQuery::get returned Ok: set_persistence from the
\* query's flags, the trace on the console, then send_packet with "let _ ="
Relay(w, rcv, connectOk, writeOk, console) ==
    /\ consoleErr' = console
    /\ process' = HandleIoResult(console)
    /\ IF HandleIoResult(console) # "running"
       THEN UNCHANGED <<wk, upbuf, upclosed>>
       ELSE /\ wk' = [wk EXCEPT
                  ![w].pc = "loop",
                  ![w].mtype = rcv.mtype,
                  ![w].client.stream =
                      [StreamSetPersistence(@, (rcv.flags \div PERSISTENCE) % 2 = 1)
                          EXCEPT !.stream = IF connectOk THEN Len(upbuf) + 1 ELSE 0],
                  ![w].outq = IF connectOk /\ writeOk THEN QuerySend(rcv) ELSE << >>,
                  ![w].failed = ~(connectOk /\ writeOk)]
            /\ upbuf' = IF connectOk THEN Append(upbuf, << >>) ELSE upbuf
            /\ upclosed' = IF connectOk THEN Append(upclosed, FALSE) ELSE upclosed

\* handle_query from its start to the response loop
Queried(w, got, connectOk, writeOk, console) ==
    IF got.status # "ok"
    THEN \* "Could not read a packet": return
         /\ connectOk /\ writeOk /\ console = "ok"
         /\ wk' = [wk EXCEPT ![w].pc = "done", ![w].failed = TRUE]
         /\ UNCHANGED <<process, consoleErr, upbuf, upclosed>>
    ELSE Relay(w, got.rcv, connectOk, writeOk, console)

HandleQuery(w, connectOk, writeOk, console) ==
    /\ process = "running"
    /\ wk[w].pc = "query"
    /\ writeOk \/ connectOk
    /\ Queried(w, QueryGet(wk[w].inq, wk[w].token), connectOk, writeOk,
               console)
    /\ UNCHANGED <<template, nupf, relayVars, clientVars, apiVars>>

\* get_msg_any on the connection of a worker (written from the specification
\* and from its caller, which tests the frame for a ping): one frame off the
\* upstream socket, pings included; an error without a socket
GetMsgAny(sock) ==
    IF sock = 0 THEN FrameRead(FALSE, NoResponse, << >>, 0)
    ELSE ResponseGetPlusPing(upbuf[sock])

\* where the response loop goes after a frame was sent back
AfterFrame(mtype, payload) ==
    IF payload < 0 THEN "loop"
    ELSE IF payload = 0 \/ ~OldDirType(mtype) THEN "done"
    ELSE "loop"

\* one turn of the response loop on the result r of get_msg_any.  sendOk: the
\* outcome of resp.send on the inbound socket (dropped by "let _ =")
Looped(w, sock, r, sendOk, console) ==
    /\ upbuf' = IF sock = 0 THEN upbuf ELSE [upbuf EXCEPT ![sock] = r.rest]
    /\ IF ~r.ok
       THEN \* "if let Ok(..)" has no else: the loop turns again
            /\ sendOk /\ console = "ok"
            /\ wk' = [wk EXCEPT ![w].failed = TRUE]
            /\ UNCHANGED <<process, consoleErr>>
       ELSE /\ consoleErr' = console
            /\ process' = HandleIoResult(console)
            /\ IF HandleIoResult(console) # "running"
               THEN /\ sendOk
                    /\ UNCHANGED wk
               ELSE wk' = [wk EXCEPT
                       ![w].taken = @ \o Take(upbuf[sock], r.used),
                       ![w].back = IF sendOk THEN @ \o ResponseSend(r.rcv) ELSE @,
                       ![w].lost = @ \/ ~sendOk,
                       ![w].failed = @ \/ ~sendOk,
                       ![w].pc = AfterFrame(wk[w].mtype, r.rcv.payload)]

ResponseLoop(w, sendOk, console) ==
    /\ process = "running"
    /\ wk[w].pc = "loop"
    /\ Looped(w, wk[w].client.stream.stream,
              GetMsgAny(wk[w].client.stream.stream), sendOk, console)
    /\ UNCHANGED <<template, upclosed, nupf, relayVars, clientVars, apiVars>>

\* the frames an upstream server is seen to send
UpFrames == {Ping, End, DataA}

\* the upstream server of a waiting worker writes one frame (with cut it dies
\* before the last byte).  A frame written while an earlier one is unread is
\* read as if it were written after that read, so one frame is in flight.
UpstreamSend(w, f, cut) ==
    /\ process = "running"
    /\ wk[w].pc = "loop"
    /\ wk[w].client.stream.stream # 0
    /\ upbuf[wk[w].client.stream.stream] = << >>
    /\ ~upclosed[wk[w].client.stream.stream]
    /\ nupf < MaxUpFrames
    /\ nupf' = nupf + 1
    /\ upbuf' = [upbuf EXCEPT ![wk[w].client.stream.stream] =
                    @ \o (IF cut THEN Take(ResponseSend(f), Len(ResponseSend(f)) - 1)
                          ELSE ResponseSend(f))]
    /\ upclosed' = IF cut THEN [upclosed EXCEPT ![wk[w].client.stream.stream] = TRUE]
                   ELSE upclosed
    /\ UNCHANGED <<process, consoleErr, template, wk, relayVars, clientVars, apiVars>>

\* the listening client made a call of its own before listen(): it holds a
\* socket (persistent or not)
ServeStart ==
    /\ process = "running"
    /\ consoleErr = "ok"
    /\ \E persist \in BOOLEAN, sock \in {0, 1} :
          /\ template = Connection(DefaultTarget, persist, sock)
          /\ upbuf = IF sock = 0 THEN << >> ELSE << << >> >>
          /\ upclosed = IF sock = 0 THEN << >> ELSE <<FALSE>>
    /\ wk = [w \in Workers |-> NoWorker]
    /\ nupf = 0
    /\ RelayIdle

InitServe == ServeStart /\ ClientIdle

\* one worker against every behaviour of its two peers
NextWorker ==
    \/ \E q \in ServedQueries : Accept(1, q[1], q[2], q[3])
    \/ \E connectOk \in BOOLEAN, writeOk \in BOOLEAN, console \in ConsoleResults :
          HandleQuery(1, connectOk, writeOk, console)
    \/ \E sendOk \in BOOLEAN, console \in ConsoleResults :
          ResponseLoop(1, sendOk, console)
    \/ \E f \in UpFrames, cut \in BOOLEAN :
          /\ cut => f = DataA
          /\ UpstreamSend(1, f, cut)

SpecWorker == InitServe /\ [][NextWorker]_vars

\* the workers of one process side by side, each serving a read
NextServe ==
    \/ \E w \in Workers, cut \in BOOLEAN : Accept(w, READ, ~cut, cut)
    \/ \E w \in Workers, connectOk \in BOOLEAN, console \in ConsoleResults :
          HandleQuery(w, connectOk, TRUE, console)
    \/ \E w \in Workers, console \in ConsoleResults :
          ResponseLoop(w, TRUE, console)
    \/ \E w \in Workers, f \in {Ping, DataA} : UpstreamSend(w, f, FALSE)

SpecServe == InitServe /\ [][NextServe]_vars

----------------------------------------------------------------------------
(* Reference definitions for the properties: the wire format read with the  *)
(* payload as a signed 32-bit value                                          *)

\* the content length a header with this payload announces
ContentLen(payload) == IF payload > 0 THEN payload ELSE 0

RECURSIVE Frames(_)
\* the complete frames of a byte run, in order
Frames(buf) ==
    IF Len(buf) < HSIZE THEN << >>
    ELSE IF Len(buf) - HSIZE < ContentLen(HeaderWord(buf, 2)) THEN << >>
    ELSE <<[ResponseHeader(buf) EXCEPT
              !.content = SubSeq(buf, HSIZE + 1,
                                 HSIZE + ContentLen(HeaderWord(buf, 2)))]>>
         \o Frames(Drop(buf, HSIZE + ContentLen(HeaderWord(buf, 2))))

RECURSIVE StripPings(_)
\* the same byte run with its ping frames removed
StripPings(buf) ==
    IF Len(buf) < HSIZE THEN buf
    ELSE IF HeaderWord(buf, 2) < 0 THEN StripPings(Drop(buf, HSIZE))
    ELSE IF Len(buf) - HSIZE < HeaderWord(buf, 2) THEN buf
    ELSE Take(buf, HSIZE + HeaderWord(buf, 2))
         \o StripPings(Drop(buf, HSIZE + HeaderWord(buf, 2)))

RECURSIVE JoinFrames(_, _)
\* the contents of fs[1..n] with the last byte at each join replaced by ','
JoinFrames(fs, n) ==
    IF n = 1 THEN fs[1].content
    ELSE Take(JoinFrames(fs, n - 1), Len(JoinFrames(fs, n - 1)) - 1)
         \o <<COMMA>> \o fs[n].content

RECURSIVE SumPayload(_, _)
SumPayload(fs, n) == IF n = 0 THEN 0 ELSE SumPayload(fs, n - 1) + fs[n].payload

\* fs is f1..fn, each with payload > 0 and NUL-terminated, then an end marker
DirListing(fs, n) ==
    /\ n >= 1
    /\ n < Len(fs)
    /\ fs[n + 1].payload = 0
    /\ \A i \in 1..n : fs[i].payload > 0 /\ fs[i].content[fs[i].payload] = 0

\* the last API call went through its receive (it was not ended by send_packet)
WentThroughReceive(op) == last.op = op /\ last.err \in {"none", "io"}

\* the bytes the reads of the last call took from the stream
RECURSIVE UsedUpTo(_, _)
UsedUpTo(reads, n) == IF n = 0 THEN 0 ELSE UsedUpTo(reads, n - 1) + reads[n].used

\* the call consumed exactly one non-ping frame: pings, then the frame returned
SingleFrame ==
    /\ last.reads # << >>
    /\ last.reads[Len(last.reads)].payload >= 0
    /\ last.reads[Len(last.reads)].payload = last.payload
    /\ \A i \in 1..(Len(last.reads) - 1) : last.reads[i].payload < 0

\* the call consumed frames until the end marker, and the end marker last
MultiFrame ==
    /\ last.reads # << >>
    /\ last.reads[Len(last.reads)].payload = 0
    /\ \A i \in 1..(Len(last.reads) - 1) : last.reads[i].payload # 0

\* a step of send_packet (the only action that starts an API call)
CallStarts == ncalls' = ncalls + 1

\* send_packet made a connect attempt: a socket was opened or the connect failed
ConnectAttempt == nsock' = nsock + 1 \/ last'.err = "connect"

----------------------------------------------------------------------------
(* Properties *)

\* C1: in any topology of relay instances with pairwise distinct tokens
\* (cycles included) each relay forwards a query at most once: a relay that
\* receives a query whose token list holds its own token rejects it with the
\* loop error and does not forward it, so a query in flight has passed at most
\* MaxRelays hops.
C1_ForwardedAtMostOnce ==
    /\ \A q \in 1..MaxQueries : \A r \in Relays : fwd[q][r] <= 1
    /\ \A e \in relaylog :
          Contains(e.sent, Token(e.relay)) => e.status = "loop" /\ ~e.forwarded
    /\ \A c \in conns : Len(c.sent) <= MaxRelays + 1

\* a relay in a cycle forwarded the query once and rejected it on its return
C1_Witness ==
    \E e \in relaylog :
        /\ e.status = "loop"
        /\ ~e.forwarded
        /\ fwd[e.qid][e.relay] = 1
        /\ Len(e.sent) >= 3

\* C2: a query that arrives whole at a hop with token T fails with the loop
\* error if and only if T is in the token list it arrived with; otherwise the
\* receive succeeds, the token list is the inbound list in the same order
\* followed by T, and the version word counts one token more.
C2_LoopIffTokenPresent ==
    \A e \in relaylog :
        e.status # "io" =>
            /\ (e.status = "loop") <=> Contains(e.sent, Token(e.relay))
            /\ e.status = "ok" =>
                  /\ e.tokens = e.sent \o <<Token(e.relay)>>
                  /\ HasTokens(e.version)
                  /\ TokenCount(e.version) = Len(e.sent) + 1

\* both outcomes were seen: a second hop that appended its token to a list of
\* two, and a hop that found its token in the list
C2_Witness ==
    /\ \E e \in relaylog :
          e.status = "ok" /\ Len(e.sent) = 2 /\ e.tokens[3] = Token(e.relay)
    /\ \E e \in relaylog : e.status = "loop"

\* C3: the result of an API call (single-frame and multi-frame receive alike)
\* on the bytes the peer delivered equals the result of the same receive on
\* those bytes with the ping frames removed: the same success or failure and,
\* on success, the same payload and content.
C3_PingTransparent ==
    (last.op # 0 /\ last.err \in {"none", "io"}) =>
        /\ last.ok = ReceiveOf(revision, last.op, StripPings(last.buf)).ok
        /\ last.ok =>
              /\ last.payload =
                    ReceiveOf(revision, last.op, StripPings(last.buf)).rcv.payload
              /\ last.content =
                    ReceiveOf(revision, last.op, StripPings(last.buf)).rcv.content

\* C4: every frame read takes exactly the 24 header bytes and content only
\* when the signed payload is greater than zero: a frame with negative payload
\* is read whole with empty content and 24 bytes taken from the stream, and a
\* frame read with payload >= 0 holds exactly payload content bytes.
C4_FrameRead ==
    \A i \in 1..Len(last.reads) :
        /\ last.reads[i].payload < 0 =>
              /\ last.reads[i].ok
              /\ last.reads[i].clen = 0
              /\ last.reads[i].used = HSIZE
        /\ (last.reads[i].ok /\ last.reads[i].payload >= 0) =>
              /\ last.reads[i].clen = last.reads[i].payload
              /\ last.reads[i].used = HSIZE + last.reads[i].payload

\* C5: a dir call that receives frames f1..fn (n >= 1, payload > 0,
\* NUL-terminated) followed by an end marker succeeds with the contents
\* concatenated in arrival order, the trailing NUL at each join replaced by
\* ',', and with the sum of the payloads; the end marker adds nothing.
C5_DirAggregation ==
    WentThroughReceive(DIR) =>
        \A n \in 1..MaxFrames :
            DirListing(Frames(last.buf), n) =>
                /\ last.ok
                /\ last.content = JoinFrames(Frames(last.buf), n)
                /\ last.payload = SumPayload(Frames(last.buf), n)

\* two frames and the end marker: "/A\0", "/BC\0" give "/A,/BC\0", payload 7
C5_Witness ==
    /\ WentThroughReceive(DIR)
    /\ DirListing(Frames(last.buf), 2)
    /\ last.ok
    /\ last.content = <<47, 65, 44, 47, 66, 67, 0>>
    /\ last.payload = 7

\* C6 as stated: the aggregation stops at the first frame with payload == 0 or
\* at a ping: whenever a dir call has read such a frame it returns the content
\* accumulated so far and reads no further frame.
C6_StopsAtEndOrPing ==
    WentThroughReceive(DIR) =>
        \A i \in 1..Len(last.reads) :
            (last.reads[i].payload <= 0 /\ last.reads[i].used >= HSIZE) =>
                last.ok /\ i = Len(last.reads)

\* C6 amended: the aggregation stops at the first frame with payload == 0 and
\* nowhere else.  Once the end marker is read the call returns the content
\* accumulated and takes no further byte from the connection; a dir call
\* succeeds only on an end marker, so a ping never ends it with a result (a
\* ping is skipped or fails the call).
C6_StopsAtEndMarker ==
    WentThroughReceive(DIR) =>
        /\ \A i \in 1..Len(last.reads) :
              (last.reads[i].ok /\ last.reads[i].payload = 0) =>
                  last.ok /\ i = Len(last.reads)
        /\ last.ok => MultiFrame
        /\ last.ok =>
              inbuf[last.sock] =
                  Drop(last.buf, UsedUpTo(last.reads, Len(last.reads)))

\* a dir call read a ping, went on, and returned at the end marker with the
\* content of the data frame
C6_Witness ==
    /\ WentThroughReceive(DIR)
    /\ last.ok
    /\ Len(last.reads) = 3
    /\ last.reads[1].payload < 0
    /\ last.reads[2].payload > 0
    /\ last.content = SubSeq(last.buf, 49, 51)

\* C7 as stated: a successful dir, dirall or dirallslash call consumes frames
\* until the end marker; a successful read, write, present, size or get call
\* consumes exactly one non-ping frame.
C7_DirClassMultiFrame ==
    last.ok =>
        /\ last.op \in {DIR, DIRALL, DIRALLSLASH} => MultiFrame
        /\ last.op \in {READ, WRITE, PRESENT, SIZE, GET, GETSLASH} => SingleFrame

\* C7 amended: only dir uses the multi-frame aggregating receive and consumes
\* frames until the end marker; dirall and dirallslash, like read, write,
\* present, size and get, consume exactly one non-ping frame.
C7_OnlyDirMultiFrame ==
    last.ok =>
        /\ last.op = DIR => MultiFrame
        /\ last.op \in Ops \ {DIR} => SingleFrame

\* a dirall call returned the one data frame it read
C7_Witness ==
    /\ last.ok
    /\ last.op = DIRALL
    /\ Len(last.reads) = 1
    /\ last.payload = 3

\* C8: on a persistent client that holds a socket to a live peer, a call makes
\* no connect attempt and keeps the socket, unless the probe on it fails.
C8_PersistentReuse ==
    [][(CallStarts /\ persistence /\ stream # 0 /\ ~peerClosed[stream]
            /\ WriteAllEmpty(stream))
        => (stream' = stream /\ nsock' = nsock /\ last'.err # "connect")]_vars

\* the second call of a persistent client waits on the one socket opened, both
\* queries written to it
C8_Witness ==
    /\ persistence
    /\ ncalls = 2
    /\ pc = "await"
    /\ nsock = 1
    /\ stream = 1
    /\ ~peerClosed[1]
    /\ written[1] = 2

\* C9: on a persistent client whose socket's peer has closed, the next call
\* discards that socket, makes a connect attempt, and writes no query to the
\* stale socket.
C9_StaleSocketReplaced ==
    [][(CallStarts /\ persistence /\ stream # 0 /\ peerClosed[stream])
        => (ConnectAttempt /\ written'[stream] = written[stream])]_vars

\* C10: after a receive that failed with a short read or a timeout, the next
\* call of a persistent client makes a connect attempt (the connection of the
\* failed call is not used again).
C10_DroppedAfterFailedReceive ==
    [][(CallStarts /\ persistence /\ last.err = "io") => ConnectAttempt]_vars

\* C11: every call of a non-persistent client makes a connect attempt; when
\* the connect succeeds the client holds a socket no earlier call used, the
\* socket it held before is discarded, and the query is written to the new
\* socket only, so no socket ever carries the queries of two calls.
C11_FreshSocketPerCall ==
    [][(CallStarts /\ ~persistence) =>
          /\ ConnectAttempt
          /\ last'.err # "connect" =>
                /\ stream' = nsock + 1
                /\ stream' # stream
                /\ \A s \in 1..nsock : written'[s] = written[s]
          /\ \A s \in 1..nsock' : written'[s] <= 1]_vars

\* the second call of a non-persistent client waits on a second socket, one
\* query written to each
C11_Witness ==
    /\ ~persistence
    /\ ncalls = 2
    /\ pc = "await"
    /\ nsock = 2
    /\ stream = 2
    /\ written = <<1, 1>>

\* C12: set_target and set_persistence leave the connection without a socket,
\* so the next send connects; every socket a send opens is connected to the
\* target current at that send, and a query is written only to a socket that
\* was opened for the current target.
C12_MutationInvalidatesSocket ==
    [][/\ (owserver' # owserver \/ persistence' # persistence) => stream' = 0
       /\ (CallStarts /\ stream = 0) => ConnectAttempt
       /\ (CallStarts /\ last'.err # "connect") =>
             /\ opened'[stream'] = owserver
             /\ \A s \in 1..nsock : s # stream' => written'[s] = written[s]]_vars

\* a persistent client was pointed at the second target between two calls:
\* its second query is on a second socket, connected to the second target
C12_Witness ==
    /\ persistence
    /\ owserver = 2
    /\ ncalls = 2
    /\ pc = "await"
    /\ opened = <<1, 2>>
    /\ stream = 2
    /\ written = <<1, 1>>

\* the upstream socket a worker's client holds (0: none)
UpSock(w) == wk[w].client.stream.stream

\* C13: the client a worker is spawned on has the target and the persistence
\* setting of the listening client and no socket, whatever socket the
\* listening client holds; so no upstream socket is ever held by two
\* workers, or by a worker and the listening client.
C13_CloneHasNoSocket ==
    [][/\ \A w \in Workers :
             (wk[w].pc = "free" /\ wk'[w].pc = "query") =>
                 wk'[w].client =
                     Connection(template.owserver, template.stream.persist, 0)
       /\ \A w \in Workers :
             wk'[w].client.stream.stream # 0 =>
                 /\ wk'[w].client.stream.stream # template'.stream.stream
                 /\ \A v \in Workers \ {w} :
                       wk'[v].client.stream.stream #
                           wk'[w].client.stream.stream]_vars

\* the listening client holds a socket and two workers, cloned from it, wait
\* on two further sockets
C13_Witness ==
    /\ template.stream.stream = 1
    /\ wk[1].pc = "loop"
    /\ wk[2].pc = "loop"
    /\ UpSock(1) # 0
    /\ UpSock(2) # 0
    /\ UpSock(1) # UpSock(2)

\* a frame after which the relay stops forwarding, multi saying whether the
\* operation is taken as a multi-frame one
Stops(multi, f) == f.payload >= 0 /\ (f.payload = 0 \/ ~multi)

\* worker w wrote back the frames it took from upstream, unchanged and in
\* order, and stopped at the first frame that stops it and not before
ForwardedUntilStop(w, multi, fs) ==
    /\ ~wk[w].lost => wk[w].back = wk[w].taken
    /\ \A i \in 1..(Len(fs) - 1) : ~Stops(multi, fs[i])
    /\ (wk[w].pc = "loop" /\ fs # << >>) => ~Stops(multi, fs[Len(fs)])
    /\ (wk[w].pc = "done" /\ fs # << >>) => Stops(multi, fs[Len(fs)])

\* C14 as stated: the relay writes back exactly the frames it receives from
\* upstream, pings included; it stops after the first non-ping frame when the
\* operation is not a directory-class operation (dir, dirall, dirallslash) and
\* for a directory-class operation after a zero-payload frame.
C14_DirClassForwarding ==
    \A w \in Workers :
        ForwardedUntilStop(w, wk[w].mtype \in {DIR, DIRALL, DIRALLSLASH},
                           Frames(wk[w].taken))

\* C14 amended: the relay writes back exactly the frames it receives from
\* upstream, unchanged and in arrival order, pings included; it stops after
\* the first non-ping frame when the operation is not dir (dirall and
\* dirallslash included), and for dir after a zero-payload frame.
C14_DirForwarding ==
    \A w \in Workers :
        ForwardedUntilStop(w, wk[w].mtype = DIR, Frames(wk[w].taken))

\* a dir query was answered by a data frame, a ping and the end marker; the
\* worker wrote the three back and stopped
C14_Witness ==
    /\ wk[1].mtype = DIR
    /\ wk[1].pc = "done"
    /\ wk[1].back = ResponseSend(DataA) \o ResponseSend(Ping) \o ResponseSend(End)
    /\ wk[1].taken = wk[1].back

\* C15: an I/O failure at any step of handle_query (reading the inbound
\* query, connecting or sending upstream, reading an upstream response,
\* writing a response back) ends the handler: a worker that met a failure
\* has terminated.
C15_FailureAborts ==
    \A w \in Workers : wk[w].failed => wk[w].pc = "done"

\* a step changes the state of at most one worker
OneWorkerSteps ==
    \A w \in Workers : \A v \in Workers \ {w} :
        wk'[w] = wk[w] \/ wk'[v] = wk[v]

\* C16 as stated: whatever fails while one connection is handled, a failed
\* write to the console included, the process keeps running (the accept loop
\* and the other workers with it) and no other worker's state is touched.
C16_FailureIsolated ==
    [][process' = "running" /\ OneWorkerSteps]_vars

\* C16 amended: a network failure in one worker touches no other worker and
\* leaves the process running; a failed write to the console is not
\* contained: it ends the whole process, accept loop and all workers
\* included, with exit status 0 on a closed pipe and 1 on any other error,
\* and nothing else ends the process.
C16_OnlyConsoleFailureExits ==
    [][/\ OneWorkerSteps
       /\ process' # "running" => consoleErr' # "ok"
       /\ consoleErr' = "BrokenPipe" => process' = "exit0"
       /\ consoleErr' = "other" => process' = "exit1"
       /\ consoleErr' = "ok" => process' = "running"]_vars

\* the trace of the second worker's query hit a closed pipe: the process has
\* exited while the first worker was waiting for its upstream answer
C16_Witness ==
    /\ process = "exit0"
    /\ consoleErr = "BrokenPipe"
    /\ wk[1].pc = "loop"
    /\ ~wk[1].failed
    /\ wk[2].pc = "query"

\* the token count a version word carries
CarriedTokens(version) ==
    IF HasTokens(version) THEN TokenCount(version) ELSE 0

\* C17: the bytes a relay writes upstream are the bytes it read, but for the
\* version word: payload, operation tag, flags, size and offset are the
\* same words, the content and the inbound tokens follow unchanged, the
\* relay's own token is appended after them, and the version carries a token
\* count one higher than the inbound one.
C17_RelayedUnchanged ==
    \A l \in relaylog :
        l.forwarded =>
            /\ \A i \in 2..6 : HeaderWord(l.out, i) = HeaderWord(l.inb, i)
            /\ Drop(l.out, 4) = Drop(l.inb, 4) \o Token(l.relay)
            /\ HasTokens(HeaderWord(l.out, 1))
            /\ TokenCount(HeaderWord(l.out, 1))
                   = CarriedTokens(HeaderWord(l.inb, 1)) + 1

\* a query that already carried two tokens was relayed once more, and a
\* query of a token-less client was relayed
C17_Witness ==
    /\ \E l \in relaylog :
          l.forwarded /\ Len(l.sent) = 2 /\ Len(l.out) > Len(l.inb)
    /\ \E l \in relaylog :
          l.forwarded /\ l.sent = << >> /\ Len(l.out) > Len(l.inb)

----------------------------------------------------------------------------
(* The wait of a call, read by read: get_msg_single and get_msg_many set a  *)
(* read timeout of 5 s on the socket and then read frames in a loop.  The   *)
(* timeout bounds each read, not the call: a read that gets bytes returns,  *)
(* and the next read waits afresh.                                          *)

\* a client that sets no read timeout
SetTimeoutNone == FALSE

\* set_timeout: s.set_read_timeout(Some(Duration::from_secs(5)))
SetTimeout == TRUE

\* the bytes start with a whole header whose payload word is negative
LeadingPing(buf) == Len(buf) >= HSIZE /\ HeaderWord(buf, 2) < 0

\* the call is inside a read
Waiting == pc \in {"await", "content"}

\* get_plus_ping / one pass of get_packet on the bytes that have arrived
HeadFrame ==
    IF revision = "client" THEN GetPacketOnce(inbuf[stream])
    ELSE ResponseGetPlusPing(inbuf[stream])

\* the peer writes a keep-alive frame once the client has read the last one
PeerPing ==
    /\ Waiting
    /\ ~peerClosed[stream]
    /\ inbuf[stream] = << >>
    /\ inbuf' = [inbuf EXCEPT ![stream] = ResponseSend(Ping)]
    /\ UNCHANGED <<revision, persistence, stream, nsock, peerClosed, written,
                   pc, cur, last, ncalls, npeer, owserver, opened, relayVars,
                   serveVars, apiVars>>

\* the frame r read at the head of the stream was a keep-alive: the loop
\* turns ("continue") when the frame was read whole, and the call stays
\* inside read_exact when the payload word was taken for a content length
KeptAlive(r) ==
    /\ inbuf' = [inbuf EXCEPT ![stream] = r.rest]
    /\ last' = [last EXCEPT !.reads = <<ReadEntry(r)>>]
    /\ pc' = IF r.ok THEN "await" ELSE "content"

\* one turn of the loop of OwResponse::get / get_packet on a keep-alive frame
KeepAlive ==
    /\ pc = "await"
    /\ LeadingPing(inbuf[stream])
    /\ \E r \in {HeadFrame} : KeptAlive(r)
    /\ UNCHANGED <<revision, persistence, stream, nsock, peerClosed, written,
                   cur, ncalls, npeer, owserver, opened, relayVars, serveVars, apiVars>>

\* read_exact of a content takes the bytes that arrive and goes on reading
Absorb ==
    /\ pc = "content"
    /\ inbuf[stream] # << >>
    /\ inbuf' = [inbuf EXCEPT ![stream] = << >>]
    /\ UNCHANGED <<revision, persistence, stream, nsock, peerClosed, written,
                   pc, cur, last, ncalls, npeer, owserver, opened, relayVars,
                   serveVars, apiVars>>

\* full_rcv of get_msg_many, kept in last while the call is in progress
\* (payload 0: no frame aggregated yet)
FullSoFar ==
    [NoResponse EXCEPT !.payload = last.payload, !.ret = last.ret,
                       !.content = last.content]

\* get_msg_many keeps the frame rcv: the first becomes full_rcv, a later one
\* is aggregated
Gathered(rcv) ==
    IF last.payload > 0 THEN Aggregate(FullSoFar, rcv) ELSE rcv

\* one turn of the loop of get_msg_many on a frame that is not the end marker
Gather ==
    /\ pc = "await"
    /\ ReceiveMany(cur.op)
    /\ \E r \in {HeadFrame} :
          /\ r.ok
          /\ r.rcv.payload >= 0
          /\ ~EndMarker(r.rcv)
          /\ inbuf' = [inbuf EXCEPT ![stream] = r.rest]
          /\ last' = [last EXCEPT !.payload = Gathered(r.rcv).payload,
                                  !.ret = Gathered(r.rcv).ret,
                                  !.content = Gathered(r.rcv).content]
    /\ UNCHANGED <<revision, persistence, stream, nsock, peerClosed, written,
                   pc, cur, ncalls, npeer, owserver, opened, relayVars,
                   serveVars, apiVars>>

\* the call returns: r is the last frame read, rcv the value returned
WaitEnd(r, rcv) ==
    /\ inbuf' = [inbuf EXCEPT ![stream] = r.rest]
    /\ last' = CallEnd(cur.op, stream, cur.connected, r.ok,
                       IF r.ok THEN "none" ELSE "io", rcv,
                       Append(last.reads, ReadEntry(r)), inbuf[stream])
    /\ pc' = "idle"
    /\ cur' = NoCall

\* the frame that ends the call has arrived: get_msg_single returns the frame,
\* get_msg_many returns full_rcv at the end marker
Return ==
    /\ pc = "await"
    /\ \E r \in {HeadFrame} :
          /\ r.ok
          /\ r.rcv.payload >= 0
          /\ ReceiveMany(cur.op) => EndMarker(r.rcv)
          /\ WaitEnd(r, IF ReceiveMany(cur.op) /\ last.payload > 0
                        THEN FullSoFar ELSE r.rcv)
    /\ UNCHANGED <<revision, persistence, stream, nsock, peerClosed, written,
                   ncalls, npeer, owserver, opened, relayVars, serveVars, apiVars>>

\* a read lacks bytes for 5 s, or meets the end of the stream: read_exact
\* returns the error and "?" returns it from the call
Timeout ==
    /\ Waiting
    /\ SetTimeout \/ peerClosed[stream]
    /\ IF pc = "await"
       THEN /\ ~LeadingPing(inbuf[stream])
            /\ \E r \in {HeadFrame} : ~r.ok /\ WaitEnd(r, r.rcv)
       ELSE /\ inbuf[stream] = << >>
            /\ last' = CallEnd(cur.op, stream, cur.connected, FALSE, "io",
                               NoResponse, last.reads, << >>)
            /\ pc' = "idle"
            /\ cur' = NoCall
            /\ UNCHANGED inbuf
    /\ UNCHANGED <<revision, persistence, stream, nsock, peerClosed, written,
                   ncalls, npeer, owserver, opened, relayVars, serveVars, apiVars>>

NextWait ==
    \/ \E mtype \in {READ, DIR} : SendPacket(mtype, TRUE, TRUE)
    \/ PeerPing
    \/ \E f \in {DataA, End} : PeerSend(f, FALSE)
    \/ PeerClose
    \/ KeepAlive
    \/ Absorb
    \/ Gather
    \/ Return
    \/ Timeout

\* the client's thread runs: a read that has bytes returns, and a read that
\* stays without bytes meets its timeout
SpecWait ==
    /\ InitClient
    /\ [][NextWait]_vars
    /\ WF_vars(KeepAlive)
    /\ WF_vars(Absorb)
    /\ WF_vars(Gather)
    /\ WF_vars(Return)
    /\ WF_vars(Timeout)

\* C18 as stated: every call eventually returns, whatever the peer does,
\* a peer that sends only keep-alive frames included.
C18_CallReturns == Waiting ~> (pc = "idle")

\* C18 amended: every call eventually returns provided the peer does not
\* send keep-alive frames for ever: a peer that stays silent or closes the
\* connection makes the call end with an error, but each keep-alive frame
\* starts a new wait of 5 s.
C18_ReturnsOncePingsStop ==
    (<>[][~PeerPing]_vars) => (Waiting ~> (pc = "idle"))

\* a call read a keep-alive frame and then ended with the error of a read
\* that got no bytes
C18_Witness ==
    /\ pc = "idle"
    /\ last.err = "io"
    /\ last.reads # << >>
    /\ last.reads[1].payload = -1
    /\ last.buf = << >>

RECURSIVE TotalWritten(_)
\* the queries written so far, over all the sockets
TotalWritten(w) == IF w = << >> THEN 0 ELSE Head(w) + TotalWritten(Tail(w))

\* C19: a call transmits its query at most once and makes at most one
\* connect; a connect or write failure ends the call with the error and
\* without a transmission, and the receive ends the call whatever its
\* outcome: within a call nothing is written again and no second receive
\* starts.
C19_NoRetry ==
    [][/\ TotalWritten(written') <= TotalWritten(written) + 1
       /\ TotalWritten(written') # TotalWritten(written) => CallStarts
       /\ nsock' <= nsock + 1
       /\ nsock' # nsock => CallStarts
       /\ (CallStarts /\ last'.err # "none") =>
              /\ pc' = "idle"
              /\ TotalWritten(written') = TotalWritten(written)
       /\ (pc = "await" /\ last' # last) => pc' = "idle"]_vars

\* a call wrote its query once; the next call failed in its write, is over,
\* and nothing more was written
C19_Witness ==
    /\ pc = "idle"
    /\ ncalls = 2
    /\ last.err = "write"
    /\ TotalWritten(written) = 1

\* the content of the query a call has written
SentContent == SubSeq(cur.msg, HSIZE + 1, HSIZE + HeaderWord(cur.msg, 2))

\* C20: the query of a write carries the path, one NUL byte, then the value,
\* with payload = len(path) + 1 + len(value) and size = len(value); the
\* query of any other operation carries the path and one NUL byte, with
\* payload = len(path) + 1.
C20_NulTerminatedPath ==
    pc = "await" =>
        IF cur.op = WRITE
        THEN /\ SentContent = CallPath \o <<0>> \o CallValue
             /\ HeaderWord(cur.msg, 2) = Len(CallPath) + 1 + Len(CallValue)
             /\ HeaderWord(cur.msg, 5) = Len(CallValue)
        ELSE /\ SentContent = CallPath \o <<0>>
             /\ HeaderWord(cur.msg, 2) = Len(CallPath) + 1

----------------------------------------------------------------------------
(* The client API (client.rs): read, write, dir, present, size, dirall and  *)
(* get on a path, against a server that answers with a return code          *)

\* the paths of the calls: "", "/A", and "/" NUL "A"
Paths == {<< >>, <<47, 65>>, <<47, 0, 65>>}

\* the values of the writes: "" and "30"
Values == {<< >>, <<51, 48>>}

\* the operations of read, write, dir, size, present, dirall and get
ApiOps == {READ, WRITE, DIR, SIZE, PRESENT, DIRALL, GET}

\* a CString::new that takes any path
NulErrorNever(path) == FALSE

\* CString::new(path) is Err(NulError) when the path holds a 0 byte
NulError(path) == Contains(path, 0)

\* make_read, make_write, ... on a path: OwMessageSend::new / OwQuery::new
\* with self.flags
ApiQuery(rev, flag, mtype, path, value) ==
    IF rev = "client"
    THEN MessageSendNew(flag, mtype, path, mtype = WRITE, value)
    ELSE QueryNew(flag, mtype, path, mtype = WRITE, value, selftoken)

\* "let msg = f(self, path)?;" failed: the call returns the error
CallRefused(mtype) ==
    /\ pc = "idle"
    /\ ncalls < MaxCalls
    /\ ncalls' = ncalls + 1
    /\ last' = CallEnd(mtype, stream, FALSE, FALSE, "encoding", NoResponse,
                       << >>, << >>)
    /\ UNCHANGED <<revision, persistence, stream, nsock, inbuf, peerClosed,
                   written, pc, cur, npeer, owserver, opened, relayVars,
                   serveVars, apiVars>>

\* an API call up to the end of send_packet
ApiCall(mtype, path, value, connectOk, writeOk) ==
    /\ mtype # WRITE => value = << >>
    /\ IF NulError(path)
       THEN connectOk /\ writeOk /\ CallRefused(mtype)
       ELSE SendPacketOf(ApiQuery(revision, config.flags, mtype, path, value),
                         mtype, connectOk, writeOk)

\* the answers of a server: success, the error codes -1 and -22, a length
Done    == Response(0, 0, << >>)
Failed  == Response(0, -1, << >>)
Invalid == Response(0, -22, << >>)
Sized   == Response(0, 5, << >>)

ApiFrames == {Done, Failed, Invalid, Sized, DataA}

NextApi ==
    \/ \E mtype \in ApiOps, path \in Paths, value \in Values :
          ApiCall(mtype, path, value, TRUE, TRUE)
    \/ \E f \in ApiFrames : PeerSend(f, FALSE)
    \/ Receive

SpecApi == InitClient /\ [][NextApi]_vars

\* the header words of the query a call has written
SentPayload == HeaderWord(cur.msg, 2)
SentSize    == HeaderWord(cur.msg, 5)

----------------------------------------------------------------------------
(* What the API calls return (client.rs) *)

\* Ok(value); len is the i32 of size(), found the bool of present()
ApiOk(value, len, found) ==
    [kind |-> "ok", code |-> 0, value |-> value, len |-> len, found |-> found]

\* Err(OwError::...); code is the return code the Output message is made of
ApiErr(kind, code) ==
    [kind |-> kind, code |-> code, value |-> << >>, len |-> 0, found |-> FALSE]

\* get_value after send_get_single: the content when payload > 0
GetValue(rcv) ==
    IF rcv.payload > 0 THEN ApiOk(rcv.content, 0, FALSE)
    ELSE ApiOk(<< >>, 0, FALSE)

\* a write that takes only a negative return code for a failure
WriteResultNegative(rcv) ==
    IF rcv.ret >= 0 THEN ApiOk(<< >>, 0, FALSE) ELSE ApiErr("Output", rcv.ret)

\* write after send_get_single: "if rcv.ret == 0 { Ok(()) } else { Err(..) }"
WriteResult(rcv) ==
    IF rcv.ret = 0 THEN ApiOk(<< >>, 0, FALSE) ELSE ApiErr("Output", rcv.ret)

\* present after send_get_single: Ok(rcv.ret == 0)
PresentResult(rcv) == ApiOk(<< >>, 0, rcv.ret = 0)

\* a size that returns the return code whatever its sign
SizeResultRaw(rcv) == ApiOk(<< >>, rcv.ret, FALSE)

\* size after send_get_single: "if ret < 0 { Err(..) } else { Ok(ret) }"
SizeResult(rcv) ==
    IF rcv.ret < 0 THEN ApiErr("Output", rcv.ret)
    ELSE ApiOk(<< >>, rcv.ret, FALSE)

\* dirboth: raw_dir.retain(|&b| b != 0) (the split at the commas and the
\* pruning leave the bytes of the entries as they are)
DirBoth(value) ==
    ApiOk(SelectSeq(value, LAMBDA b : b # 0), 0, FALSE)

\* dir after send_get_many, dirall after get_value
DirResult(rcv) == DirBoth(rcv.content)
DirAllResult(rcv) == DirBoth(GetValue(rcv).value)

\* what the API call whose transport ended as call returns to its caller:
\* the error of the "?" of make_*, send_packet or the receive, else the
\* decoded response
ApiResult(call) ==
    IF call.err # "none" THEN ApiErr(call.err, 0)
    ELSE CASE call.op = WRITE -> WriteResult(call)
           [] call.op = SIZE -> SizeResult(call)
           [] call.op = PRESENT -> PresentResult(call)
           [] call.op = DIR -> DirResult(call)
           [] call.op \in {DIRALL, DIRALLSLASH} -> DirAllResult(call)
           [] OTHER -> GetValue(call)

\* the server answered the last call with the frame f first
AnsweredWith(f) ==
    /\ last.op # 0
    /\ last.ok
    /\ Len(last.buf) >= Len(ResponseSend(f))
    /\ Take(last.buf, Len(ResponseSend(f))) = ResponseSend(f)

\* C22: write returns success exactly when the return code of the response
\* is 0, and for every other return code a failure that carries the code.
C22_WriteDecoded ==
    \A f \in ApiFrames :
        (last.op = WRITE /\ AnsweredWith(f)) =>
            /\ ApiResult(last).kind = "ok" <=> f.ret = 0
            /\ f.ret # 0 => /\ ApiResult(last).kind = "Output"
                            /\ ApiResult(last).code = f.ret

\* a write was answered with the return code -22 or with the code 5
C22_Witness ==
    /\ last.op = WRITE
    /\ AnsweredWith(Invalid) \/ AnsweredWith(Sized)
    /\ pc = "idle"

\* C23: for read, get, dir and dirall a response with a negative return code
\* is returned to the caller as a failure that carries the code.
C23_NegativeCodeReported ==
    \A f \in ApiFrames :
        (last.op \in {READ, GET, DIR, DIRALL} /\ AnsweredWith(f) /\ f.ret < 0) =>
            /\ ApiResult(last).kind = "Output"
            /\ ApiResult(last).code = f.ret

\* C24: size returns the return code as the length when it is >= 0 and a
\* failure carrying the code when it is < 0; no returned length is negative.
C24_SizeDecoded ==
    \A f \in ApiFrames :
        (last.op = SIZE /\ AnsweredWith(f)) =>
            /\ f.ret >= 0 => /\ ApiResult(last).kind = "ok"
                             /\ ApiResult(last).len = f.ret
            /\ f.ret < 0 => /\ ApiResult(last).kind = "Output"
                            /\ ApiResult(last).code = f.ret
            /\ ApiResult(last).len >= 0

\* a size call was answered with the length 5 or with the code -1
C24_Witness ==
    /\ last.op = SIZE
    /\ AnsweredWith(Sized) \/ AnsweredWith(Failed)
    /\ pc = "idle"

\* C25: a call on a path that holds a NUL byte fails with the encoding
\* error before anything is done on the network: no socket is opened,
\* nothing is written, and the connection the client holds stays as it was.
C25_NulPathRefused ==
    [][\A mtype \in ApiOps, path \in Paths, value \in Values :
          (Contains(path, 0) /\ ApiCall(mtype, path, value, TRUE, TRUE)) =>
              /\ last'.err = "encoding"
              /\ ApiResult(last').kind = "encoding"
              /\ UNCHANGED <<stream, nsock, inbuf, peerClosed, written,
                             opened, persistence, owserver, pc>>]_vars

\* a client that holds the socket of an earlier call was given a path with a
\* NUL byte: the call failed and the socket is still held
C25_Witness ==
    /\ pc = "idle"
    /\ ncalls = 2
    /\ last.err = "encoding"
    /\ stream # 0
    /\ written[stream] = 1

----------------------------------------------------------------------------
(* The token count of a query along a chain of relays: OwQuery::new builds  *)
(* it, every relay on the way reads it with get_plus_ping, which appends    *)
(* the relay's token, and sends it on.                                       *)

\* the numbers of tokens a query can arrive with: a few, and the most the
\* 16 bits of the version can count
WireCounts == (0..MaxRelays) \cup {SERVERTOKENS - 1, SERVERTOKENS}

\* the version words that announce n tokens: the sentinel with the count, and
\* for none also the token-less version of the plain client
WireVersions(n) ==
    {SERVERMESSAGE + n} \cup (IF n = 0 THEN {SENDVERSION} ELSE {})

\* the query as get_plus_ping holds it once header, content and tokens are
\* read.  The tokens it arrived with are those of nodes further back, none of
\* them a relay of this chain: they are kept as their number (wire), and
\* tokenlist holds the tokens pushed behind them
WireQuery(version) ==
    [version |-> version, payload |-> Len(CallPath), mtype |-> READ,
     flags |-> BUS_RET, size |-> DEFAULTSIZE, offset |-> 0,
     content |-> CallPath, tokenlist |-> << >>]

OnItsWay(q, adds, from, wire) ==
    [q |-> q, adds |-> adds, from |-> from, wire |-> wire]

\* tokenlist.len()
TokensListed == qry.wire + Len(qry.q.tokenlist)

\* OwQuery::new in a client
Build(mtype) ==
    /\ qry = Unbuilt
    /\ qry' = OnItsWay(QueryNew(BUS_RET, mtype, CallPath, FALSE, << >>,
                                Token(ClientTokenId)), 1, "new", 0)
    /\ UNCHANGED <<relayVars, clientVars, serveVars, config, selftoken, hdr, calc>>

\* get_plus_ping of relay k on a query that arrives with n tokens
Arrive(version, n, k) ==
    /\ qry = Unbuilt
    /\ \E r \in {QueryLoopTest(WireQuery(version), << >>, Token(k))} :
          /\ r.status = "ok"
          /\ qry' = OnItsWay(r.rcv, 1, "wire", n)
    /\ UNCHANGED <<relayVars, clientVars, serveVars, config, selftoken, hdr, calc>>

\* the query is sent on, and get_plus_ping of the next relay k reads it
Hop(k) ==
    /\ qry.adds > 0
    /\ \E r \in {QueryLoopTest(qry.q, << >>, Token(k))} :
          /\ r.status = "ok"
          /\ qry' = OnItsWay(r.rcv, qry.adds + 1, qry.from, qry.wire)
    /\ UNCHANGED <<relayVars, clientVars, serveVars, config, selftoken, hdr, calc>>

InitTokens == RelayIdle /\ ServeIdle /\ ClientIdle

NextTokens ==
    \/ \E mtype \in Ops : Build(mtype)
    \/ \E n \in WireCounts, k \in Relays :
          \E version \in WireVersions(n) : Arrive(version, n, k)
    \/ \E k \in Relays : Hop(k)

SpecTokens == InitTokens /\ [][NextTokens]_vars

\* the 16-byte tokens OwQuery::send writes after the header and the content:
\* the whole of tokenlist
SerializedTokens ==
    qry.wire + (Len(QuerySend(qry.q)) - HSIZE - Len(qry.q.content)) \div TOKENLEN

\* C26: after construction and after every add_token, also on a query that
\* arrived with N tokens, the version has the sentinel bit and its low 16
\* bits are the number of tokens of the list, which is the number of tokens
\* serialized after the content; a fresh query has one token and version
\* 0x10001
C26_VersionCountsTokens ==
    qry.adds > 0 =>
        /\ HasTokens(qry.q.version)
        /\ TokenCount(qry.q.version) = TokensListed
        /\ SerializedTokens = TokensListed
        /\ (qry.from = "new" /\ qry.adds = 1 =>
               /\ qry.q.version = SERVERMESSAGE + 1
               /\ TokensListed = 1)

\* the same for the queries with fewer tokens than the 16 bits can count
CountedBelowLimit ==
    qry.adds > 0 /\ TokensListed <= SERVERTOKENS =>
        /\ HasTokens(qry.q.version)
        /\ TokenCount(qry.q.version) = TokensListed
        /\ SerializedTokens = TokensListed

----------------------------------------------------------------------------
(* The token of an instance: OwClient::new draws it with make_token, and    *)
(* listen() hands a clone of the client to every worker.  The workers are   *)
(* followed up to the query they forward.                                   *)

\* make_token: a digest of time, pid and a random salt, one of these here
InstanceTokens == {Token(k) : k \in Relays}

\* OwClient::new, then listen()
InitListen ==
    /\ ServeStart /\ ClientOff /\ selftoken \in InstanceTokens
    /\ hdr = NoHeader /\ calc = NoCalc

\* a connection from the relay k, which forwards the query of a client: the
\* query carries the client's token and the token of k
AcceptFrom(w, k) ==
    /\ process = "running"
    /\ wk[w].pc = "free"
    /\ \A v \in 1..(w - 1) : wk[v].pc # "free"
    /\ wk' = [wk EXCEPT ![w] =
                 [NoWorker EXCEPT
                    !.pc = "query",
                    !.client = ClientClone(template),
                    !.token = TokenClone(selftoken),
                    !.inq = QuerySend(AddToken(
                                QueryNew(BUS_RET, READ, CallPath, FALSE, << >>,
                                         Token(ClientTokenId)), Token(k)))]]
    /\ UNCHANGED <<process, consoleErr, template, upbuf, upclosed, nupf,
                   relayVars, clientVars, apiVars>>

NextListen ==
    \/ \E w \in Workers : Accept(w, READ, FALSE, FALSE)
    \/ \E w \in Workers, k \in Relays : AcceptFrom(w, k)
    \/ \E w \in Workers, connectOk \in BOOLEAN :
          HandleQuery(w, connectOk, TRUE, "ok")

SpecListen == InitListen /\ [][NextListen]_vars

\* the tokens that follow the content of a complete query
QueryTokensOf(buf) ==
    Chunks(Drop(buf, HSIZE + ContentLen(HeaderWord(buf, 2))),
           TokenCount(HeaderWord(buf, 1)))

\* C27: the token of an instance is fixed at construction: no step changes
\* it, every worker holds the token of the instance that accepted its
\* connection, refuses the queries that carry that token and appends that
\* token to the queries it forwards
C27_TokenFixed ==
    [][/\ selftoken' = selftoken
       /\ \A w \in Workers :
             /\ wk'[w].pc # "free" => wk'[w].token = selftoken
             /\ (wk[w].pc = "query" /\ wk'[w].pc # "query" =>
                   IF Contains(QueryTokensOf(wk[w].inq), selftoken)
                   THEN wk'[w].pc = "done" /\ wk'[w].outq = << >>
                   ELSE wk'[w].outq # << >> =>
                           QueryTokensOf(wk'[w].outq) =
                               Append(QueryTokensOf(wk[w].inq), selftoken))]_vars

\* witness of C27: an instance whose token is not the first of the tokens,
\* with one worker that forwarded a query with the instance's token appended
\* and one that refused a query carrying that token
C27_Witness ==
    /\ selftoken # Token(EntryRelay)
    /\ \E v \in Workers, w \in Workers :
          /\ wk[v].pc = "loop"
          /\ wk[v].outq # << >>
          /\ QueryTokensOf(wk[v].outq) = Append(QueryTokensOf(wk[v].inq), selftoken)
          /\ wk[w].pc = "done"
          /\ Contains(QueryTokensOf(wk[w].inq), selftoken)
          /\ wk[w].outq = << >>

----------------------------------------------------------------------------
(* The header codec on its own: a header of six 32-bit fields goes through  *)
(* send (to_be_bytes of every field) and get_plus_ping (from_be_bytes).     *)
(* A u32 value is written <<high half, low half>>, an i32 value as itself;  *)
(* the model keeps every field as the i32 with the same bits.               *)

\* "as i32" on a u32
AsI32(u) == (IF u[1] >= 32768 THEN u[1] - 65536 ELSE u[1]) * 65536 + u[2]

\* "as u32" on an i32
AsU32(i) == <<(i \div 65536) % 65536, i % 65536>>

\* values of the two types, the extremes among them
U32s == {<<0, 0>>, <<0, 1>>, <<0, 65535>>, <<1, 1>>, <<258, 772>>,
         <<32767, 65535>>, <<32768, 0>>, <<65535, 65535>>}
I32s == {0, 1, 65537, 16909060, 2147483647, -1, -22, -2147483647 - 1}
Tails == {<<<<0, 2>>, <<1, 0>>, <<0, 0>>>>,
          <<<<65535, 65535>>, <<32768, 1>>, <<4660, 22136>>>>}

\* the fields with a signed type: payload in both structs, ret in OwResponse
SignedFields(kind) == IF kind = "query" THEN {2} ELSE {2, 3}

\* the headers of a kind: version, payload, mtype or ret, flags, size, offset
Headers(kind) ==
    {<<v, p, t>> \o tail :
        v \in U32s, p \in I32s,
        t \in (IF 3 \in SignedFields(kind) THEN I32s ELSE U32s),
        tail \in Tails}

\* the field as the struct holds it in the model
FieldWord(kind, h, i) == IF i \in SignedFields(kind) THEN h[i] ELSE AsI32(h[i])

\* the field of the struct get_plus_ping fills, in its declared type
FieldValue(kind, w, i) == IF i \in SignedFields(kind) THEN w ELSE AsU32(w)

HeaderOf(kind, h) ==
    IF kind = "query"
    THEN [version |-> FieldWord(kind, h, 1), payload |-> 0,
          mtype |-> FieldWord(kind, h, 3), flags |-> FieldWord(kind, h, 4),
          size |-> FieldWord(kind, h, 5), offset |-> FieldWord(kind, h, 6),
          content |-> << >>, tokenlist |-> << >>]
    ELSE [version |-> FieldWord(kind, h, 1), payload |-> 0,
          ret |-> FieldWord(kind, h, 3), flags |-> FieldWord(kind, h, 4),
          size |-> FieldWord(kind, h, 5), offset |-> FieldWord(kind, h, 6),
          content |-> << >>]

\* OwQuery::send / OwResponse::send of a message without content or tokens
Encode ==
    /\ hdr.step = "built"
    /\ hdr' = [hdr EXCEPT
          !.step = "sent",
          !.bytes =
              IF hdr.kind = "query"
              THEN QuerySend([HeaderOf("query", hdr.words) EXCEPT
                                 !.payload = hdr.words[2]])
              ELSE ResponseSend([HeaderOf("response", hdr.words) EXCEPT
                                    !.payload = hdr.words[2]])]
    /\ UNCHANGED <<relayVars, clientVars, serveVars, config, qry, selftoken, calc>>

\* the header part of OwQuery::get_plus_ping / OwResponse::get_plus_ping
Decode ==
    /\ hdr.step = "sent"
    /\ Len(hdr.bytes) >= HSIZE
    /\ hdr' = [hdr EXCEPT
          !.step = "decoded",
          !.got =
              IF hdr.kind = "query"
              THEN LET r == QueryHeader(hdr.bytes)
                   IN  [i \in 1..6 |->
                          FieldValue("query",
                              <<r.version, r.payload, r.mtype, r.flags,
                                r.size, r.offset>>[i], i)]
              ELSE LET r == ResponseHeader(hdr.bytes)
                   IN  [i \in 1..6 |->
                          FieldValue("response",
                              <<r.version, r.payload, r.ret, r.flags,
                                r.size, r.offset>>[i], i)]]
    /\ UNCHANGED <<relayVars, clientVars, serveVars, config, qry, selftoken, calc>>

InitCodec ==
    /\ RelayIdle /\ ServeIdle /\ ClientOff /\ selftoken = Token(EntryRelay)
    /\ calc = NoCalc
    /\ \E kind \in {"query", "response"} :
          \E h \in Headers(kind) :
             hdr = [kind |-> kind, step |-> "built", words |-> h,
                    bytes |-> << >>, got |-> << >>]

NextCodec == Encode \/ Decode

SpecCodec == InitCodec /\ [][NextCodec]_vars

\* the four bytes of a u32, most significant first
BigEndian(u) == <<u[1] \div 256, u[1] % 256, u[2] \div 256, u[2] % 256>>

\* C28: a header of six 32-bit fields is encoded as 24 bytes, every field
\* big-endian, and decoding those bytes gives the six fields back exactly:
\* the third as an unsigned value for a query, as a signed one for a response
C28_HeaderRoundTrip ==
    /\ hdr.step \in {"sent", "decoded"} =>
          /\ Len(hdr.bytes) = HSIZE
          /\ \A i \in 1..6 :
                SubSeq(hdr.bytes, 4 * i - 3, 4 * i) =
                    BigEndian(IF i \in SignedFields(hdr.kind)
                              THEN AsU32(hdr.words[i]) ELSE hdr.words[i])
    /\ hdr.step = "decoded" =>
          /\ hdr.got = hdr.words
          /\ hdr.kind = "query" => hdr.got[3] \in (0..65535) \X (0..65535)
          /\ hdr.kind = "response" => hdr.got[3] \in Int

\* witness of C28: a response with return code -22, a ping's payload and a
\* version with the top bit set went through the codec
C28_Witness ==
    /\ hdr.step = "decoded"
    /\ hdr.kind = "response"
    /\ hdr.words[1] = <<32768, 0>>
    /\ hdr.got[3] = -22
    /\ hdr.got[2] = -1
    /\ SubSeq(hdr.bytes, 9, 12) = <<255, 255, 255, 234>>

----------------------------------------------------------------------------
(* The configured client: the command line is parsed once (the options set  *)
(* the fields, make_flags closes the parse), then the calls are made.       *)

\* --size and --offset: not given, or "--size 4 --offset 2"
Limits == {<<0, 0>>, <<4, 2>>}

\* Parser::parser: the options assign the fields, then owserver.make_flags()
Configure(t, p, f, bare, size, offset) ==
    /\ pc = "idle"
    /\ ncalls = 0
    /\ config = NewConfig(persistence)
    /\ config' = Configured(t, p, f, bare, size, offset, persistence)
    /\ config' # config
    /\ UNCHANGED <<relayVars, clientVars, serveVars, qry, selftoken, hdr, calc>>

NextFlags ==
    \/ \E t \in Temperatures, p \in Pressures, f \in Formats, bare \in BOOLEAN,
          l \in Limits : Configure(t, p, f, bare, l[1], l[2])
    \/ \E mtype \in {READ, GET} : ApiCall(mtype, CallPath, << >>, TRUE, TRUE)
    \/ PeerSend(DataA, FALSE)
    \/ Receive

SpecFlags == InitClient /\ [][NextFlags]_vars

\* the flags word of a query as written to the socket
SentFlags(msg) == HeaderWord(msg, 4)

\* the bit groups of a flags word: bits 16-17, bits 18-20, bits 24-26, bit 2
TemperatureBits(fl) == ((fl \div 65536) % 4) * 65536
PressureBits(fl)    == ((fl \div 262144) % 8) * 262144
FormatBits(fl)      == ((fl \div 16777216) % 8) * 16777216
PersistenceBit(fl)  == (fl \div PERSISTENCE) % 2 = 1

\* C29: a query built by the client carries the flags made of the
\* configuration at the last make_flags: the temperature, pressure and format
\* groups hold the codes of the selected scale, unit and address format, the
\* persistence bit is set exactly when persistence was requested, the groups
\* share no bit (the word is the sum of its parts), and a step that builds,
\* sends or answers a query leaves the client's flags as they were
C29_FlagsEncodeConfiguration ==
    [][/\ (pc = "idle" /\ pc' = "await" =>
             /\ SentFlags(cur'.msg) = config.flags
             /\ TemperatureBits(SentFlags(cur'.msg)) =
                    TemperatureCode(config.temperature)
             /\ PressureBits(SentFlags(cur'.msg)) = PressureCode(config.pressure)
             /\ FormatBits(SentFlags(cur'.msg)) = FormatCode(config.format)
             /\ PersistenceBit(SentFlags(cur'.msg)) = persistence
             /\ SentFlags(cur'.msg) =
                    TemperatureBits(SentFlags(cur'.msg))
                    + PressureBits(SentFlags(cur'.msg))
                    + FormatBits(SentFlags(cur'.msg))
                    + (IF persistence THEN PERSISTENCE ELSE 0)
                    + (IF config.bare THEN 0 ELSE BUS_RET))
       /\ (pc # "idle" \/ pc' # "idle" \/ ncalls' # ncalls => config' = config)
    ]_vars

\* witness of C29: a persistent client configured for Kelvin, Pa and the
\* f.i.c address format has a query on the wire with all four in its flags
C29_Witness ==
    /\ pc = "await"
    /\ persistence
    /\ config.temperature = "KELVIN"
    /\ config.pressure = "PA"
    /\ config.format = "FIC"
    /\ SentFlags(cur.msg) =
           TEMPERATURE_K + PRESSURE_PA + FORMAT_FIC + PERSISTENCE + BUS_RET

\* C30: with --size n and --offset m configured, every read and get query
\* the client sends carries size n and offset m in its header
C30_SizeOffsetSent ==
    pc = "await" /\ cur.op \in {READ, GET} /\ config.size # 0 =>
        /\ HeaderWord(cur.msg, 5) = config.size
        /\ HeaderWord(cur.msg, 6) = config.offset

----------------------------------------------------------------------------
(* Directory listings: dirboth turns the content of a directory response    *)
(* into the list of its entries, pruned with --prune.  Text is the sequence *)
(* of its bytes.                                                            *)

MaxEntries == 3     \* entries of one directory listing

Comma == 44
Slash == 47
Dot   == 46

\* the position of the first sep in s, 0 if there is none
RECURSIVE Find(_, _, _)
Find(s, sep, i) ==
    IF i > Len(s) THEN 0 ELSE IF s[i] = sep THEN i ELSE Find(s, sep, i + 1)

\* str::split(sep): the pieces between the separators, empty ones included
RECURSIVE Split(_, _)
Split(s, sep) ==
    IF Find(s, sep, 1) = 0 THEN <<s>>
    ELSE <<Take(s, Find(s, sep, 1) - 1)>> \o Split(Drop(s, Find(s, sep, 1)), sep)

\* the last non-empty piece, the empty text if there is none
RECURSIVE LastNonEmpty(_)
LastNonEmpty(pieces) ==
    IF pieces = << >> THEN << >>
    ELSE IF pieces[Len(pieces)] # << >> THEN pieces[Len(pieces)]
    ELSE LastNonEmpty(Take(pieces, Len(pieces) - 1))

\* a basename that is the whole last segment
BasenameWhole(path) == LastNonEmpty(Split(path, Slash))

\* OwClient::basename: the last non-empty segment of the path, up to its
\* first '.'
Basename(path) ==
    IF LastNonEmpty(Split(path, Slash)) = << >> THEN << >>
    ELSE Split(LastNonEmpty(Split(path, Slash)), Dot)[1]

\* is_bad_bare's bare_bad
BareBad == {
    <<97, 100, 100, 114, 101, 115, 115>>,    \* address
    <<99, 114, 99, 56>>,    \* crc8
    <<102, 97, 109, 105, 108, 121>>,    \* family
    <<105, 100>>,    \* id
    <<108, 111, 99, 97, 116, 111, 114>>,    \* locator
    <<114, 95, 97, 100, 100, 114, 101, 115, 115>>,    \* r_address
    <<114, 95, 105, 100>>,    \* r_id
    <<114, 95, 108, 111, 99, 97, 116, 111, 114>>,    \* r_locator
    <<116, 121, 112, 101>>     \* type
    }

\* dirboth's prune_list: the same names and "bus"
PruneList == BareBad \cup {<<98, 117, 115>>}

\* dirboth: the NULs dropped, the text split at the commas, and with prune
\* the entries whose basename is on the prune list dropped
DirEntries(raw_dir, prune) ==
    LET s == Split(SelectSeq(raw_dir, LAMBDA b : b # 0), Comma)
    IN  IF prune THEN SelectSeq(s, LAMBDA x : Basename(x) \notin PruneList)
        ELSE s

\* directory entries, each with its final non-empty segment and with that
\* segment up to its first '.'
Entry(text, final, stem) == [text |-> text, final |-> final, stem |-> stem]
Entries == {
    Entry(<<47, 49, 47, 97, 100, 100, 114, 101, 115, 115>>,
          <<97, 100, 100, 114, 101, 115, 115>>, <<97, 100, 100, 114, 101, 115, 115>>),    \* /1/address
    Entry(<<47, 49, 47, 116, 101, 109, 112, 101, 114, 97, 116, 117, 114, 101>>,
          <<116, 101, 109, 112, 101, 114, 97, 116, 117, 114, 101>>, <<116, 101, 109, 112, 101, 114, 97, 116, 117, 114, 101>>),    \* /1/temperature
    Entry(<<47, 49, 47, 105, 100>>,
          <<105, 100>>, <<105, 100>>),    \* /1/id
    Entry(<<47, 98, 117, 115, 46, 48>>,
          <<98, 117, 115, 46, 48>>, <<98, 117, 115>>),    \* /bus.0
    Entry(<<47, 49, 47, 116, 121, 112, 101, 47>>,
          <<116, 121, 112, 101>>, <<116, 121, 112, 101>>),    \* /1/type/
    Entry(<<47, 49, 47, 114, 95, 105, 100, 46, 120>>,
          <<114, 95, 105, 100, 46, 120>>, <<114, 95, 105, 100>>),    \* /1/r_id.x
    Entry(<<47, 105, 100, 47, 109, 121, 105, 100>>,
          <<109, 121, 105, 100>>, <<109, 121, 105, 100>>),    \* /id/myid
    Entry(<<47, 49, 47, 99, 114, 99, 56>>,
          <<99, 114, 99, 56>>, <<99, 114, 99, 56>>)    \* /1/crc8
    }

RECURSIVE Join(_)
\* the entries of a listing with commas between them
Join(es) ==
    IF es = << >> THEN << >>
    ELSE IF Len(es) = 1 THEN es[1].text
    ELSE es[1].text \o <<Comma>> \o Join(Tail(es))

Listings == UNION {[1..n -> Entries] : n \in 0..MaxEntries}

\* a directory response arrives: its content is the listing, with or without
\* the NUL the server ends a text with
InitDir ==
    /\ RelayIdle /\ ServeIdle /\ ClientOff /\ selftoken = Token(EntryRelay)
    /\ hdr = NoHeader
    /\ \E es \in Listings, nul \in BOOLEAN, prune \in BOOLEAN :
          calc = [fn |-> "dirboth", step |-> "content", entries |-> es,
                  raw |-> Join(es) \o (IF nul THEN <<0>> ELSE << >>),
                  prune |-> prune, res |-> << >>]

DirBothCall ==
    /\ calc.fn = "dirboth"
    /\ calc.step = "content"
    /\ calc' = [calc EXCEPT !.step = "listed",
                            !.res = DirEntries(calc.raw, calc.prune)]
    /\ UNCHANGED <<relayVars, clientVars, serveVars, config, qry, selftoken, hdr>>

\* the caller prints the list and drops it
DirDone ==
    /\ calc.fn = "dirboth"
    /\ calc.step = "listed"
    /\ calc' = [calc EXCEPT !.step = "printed"]
    /\ UNCHANGED <<relayVars, clientVars, serveVars, config, qry, selftoken, hdr>>

NextDir == DirBothCall \/ DirDone

SpecDir == InitDir /\ [][NextDir]_vars

\* the texts of the entries of a listing that pass the test
Kept(es, Test(_)) ==
    LET kept == SelectSeq(es, Test) IN [i \in 1..Len(kept) |-> kept[i].text]

\* C31 as claimed: pruning removes exactly the entries whose final non-empty
\* segment is one of the nine names and keeps every other entry, unchanged
\* and in order
C31_PrunesNineNames ==
    calc.fn = "dirboth" /\ calc.step = "listed" /\ calc.prune
        /\ calc.entries # << >> =>
            calc.res = Kept(calc.entries, LAMBDA e : e.final \notin BareBad)

\* C31: pruning removes exactly the entries whose final non-empty segment,
\* taken up to its first '.', is one of the nine names or bus, and keeps
\* every other entry, unchanged and in order
C31_PrunesByStem ==
    calc.fn = "dirboth" /\ calc.step = "listed" /\ calc.prune
        /\ calc.entries # << >> =>
            calc.res = Kept(calc.entries, LAMBDA e : e.stem \notin PruneList)

\* witness of C31: "/1/address,/1/temperature,/1/id" was pruned to
\* "/1/temperature"
C31_Witness ==
    /\ calc.fn = "dirboth"
    /\ calc.step = "listed"
    /\ calc.prune
    /\ Len(calc.entries) = 3
    /\ calc.entries[1].final = <<97, 100, 100, 114, 101, 115, 115>>
    /\ calc.entries[2].final = <<116, 101, 109, 112, 101, 114, 97, 116, 117, 114, 101>>
    /\ calc.entries[3].final = <<105, 100>>
    /\ calc.res = <<calc.entries[2].text>>

----------------------------------------------------------------------------
(* The value of owwrite: input_to_write turns the text of the command line  *)
(* into the bytes to write, read as hexadecimal digits with --hex.          *)

MaxChars == 4       \* characters of one value on the command line

\* the characters of the values: 4 5 8 c G +
Chars == {52, 53, 56, 99, 71, 43}

Plus == 43

\* char::to_digit(16): the value of a hexadecimal digit, -1 for any other
\* character
ToDigit(c) ==
    IF c >= 48 /\ c <= 57 THEN c - 48
    ELSE IF c >= 65 /\ c <= 70 THEN c - 55
    ELSE IF c >= 97 /\ c <= 102 THEN c - 87
    ELSE -1

\* u8::from_str_radix(&s[i..i+2], 16): a leading '+' is taken for a sign and
\* skipped, the rest must be digits (at least one); -1 stands for Err
FromStrRadix(pair) ==
    IF pair[1] = Plus
    THEN ToDigit(pair[2])
    ELSE IF ToDigit(pair[1]) < 0 \/ ToDigit(pair[2]) < 0 THEN -1
    ELSE 16 * ToDigit(pair[1]) + ToDigit(pair[2])

\* the bytes of the pairs of s, as far as they parse
Pairs(s) == [i \in 1..(Len(s) \div 2) |-> FromStrRadix(SubSeq(s, 2 * i - 1, 2 * i))]

\* OwClient::input_to_write
InputToWrite(hex, s) ==
    IF ~hex THEN ApiOk(s, 0, FALSE)
    ELSE IF Len(s) % 2 # 0 THEN ApiErr("Numeric", 0)
    ELSE IF \E i \in 1..(Len(s) \div 2) : Pairs(s)[i] < 0 THEN ApiErr("Numeric", 0)
    ELSE ApiOk(Pairs(s), 0, FALSE)

Inputs == UNION {[1..n -> Chars] : n \in 0..MaxChars}

InitHex ==
    /\ RelayIdle /\ ServeIdle /\ ClientOff /\ selftoken = Token(EntryRelay)
    /\ hdr = NoHeader
    /\ \E s \in Inputs, hex \in BOOLEAN :
          calc = [fn |-> "input_to_write", step |-> "given", s |-> s,
                  hex |-> hex, res |-> ApiOk(<< >>, 0, FALSE)]

InputToWriteCall ==
    /\ calc.fn = "input_to_write"
    /\ calc.step = "given"
    /\ calc' = [calc EXCEPT !.step = "decoded",
                            !.res = InputToWrite(calc.hex, calc.s)]
    /\ UNCHANGED <<relayVars, clientVars, serveVars, config, qry, selftoken, hdr>>

\* owwrite hands the value to write() and drops it
InputUsed ==
    /\ calc.fn = "input_to_write"
    /\ calc.step = "decoded"
    /\ calc' = [calc EXCEPT !.step = "used"]
    /\ UNCHANGED <<relayVars, clientVars, serveVars, config, qry, selftoken, hdr>>

NextHex == InputToWriteCall \/ InputUsed

SpecHex == InitHex /\ [][NextHex]_vars

\* a text of hexadecimal digits only
HexDigits(s) == \A i \in 1..Len(s) : ToDigit(s[i]) >= 0

\* the bytes 2n hexadecimal digits denote
Denoted(s) ==
    [i \in 1..(Len(s) \div 2) |-> 16 * ToDigit(s[2 * i - 1]) + ToDigit(s[2 * i])]

\* C32: in hex mode a text of 2n hexadecimal digits gives the n bytes it
\* denotes, a text of odd length or with a character that is no hexadecimal
\* digit gives an error; with hex mode off the bytes of the text are returned
\* unchanged
C32_HexDecoded ==
    calc.fn = "input_to_write" /\ calc.step = "decoded" =>
        IF ~calc.hex THEN calc.res = ApiOk(calc.s, 0, FALSE)
        ELSE IF Len(calc.s) % 2 = 0 /\ HexDigits(calc.s)
             THEN calc.res = ApiOk(Denoted(calc.s), 0, FALSE)
             ELSE calc.res.kind # "ok"

----------------------------------------------------------------------------
(* The command line tools over their paths (bin/owread.rs, bin/owdir.rs) *)

\* the paths of one invocation: /A, /B, ... in the order given
ToolPaths == [i \in 1..MaxCalls |-> <<Slash, 64 + i>>]

\* a main that leaves its loop when a call could not connect
AfterPathFailFast(res) == IF res.kind = "connect" THEN "exit" ELSE "call"

\* main's "for path in paths.into_iter() { from_path(&mut owserver, path); }":
\* from_path returns () whatever the call returned, the loop takes the next
\* path
AfterPath(res) == "call"

\* main after parse_args::command_line: the paths are known, none attempted
ToolStart ==
    /\ calc = NoCalc
    /\ pc = "idle"
    /\ ncalls = 0
    /\ calc' = [fn |-> "owread", paths |-> ToolPaths, at |-> 1,
                phase |-> "call", out |-> << >>]
    /\ UNCHANGED <<relayVars, clientVars, serveVars, config, qry, selftoken, hdr>>

\* from_path: owserver.read(&path) on the next path; connectOk is the outcome
\* of the connect the call makes
FromPathCall(connectOk) ==
    /\ calc.fn = "owread"
    /\ calc.phase = "call"
    /\ ncalls = calc.at - 1
    /\ ApiCall(READ, calc.paths[calc.at], << >>, connectOk, TRUE)

\* from_path's match on what read returned: Ok => println of the value,
\* Err(e) => eprintln!("Trouble with path {} Error {}", path, e); then the
\* return to main's loop.  ret is the return code of the response the call
\* ended on.
FromPathReturn ==
    /\ calc.fn = "owread"
    /\ calc.phase = "call"
    /\ pc = "idle"
    /\ ncalls = calc.at
    /\ LET res == ApiResult(last)
       IN  calc' = [calc EXCEPT
                      !.out = Append(@, [path |-> calc.paths[calc.at],
                                         printed |-> IF res.kind = "ok"
                                                     THEN "value" ELSE "trouble",
                                         err |-> last.err,
                                         ret |-> last.ret]),
                      !.at = @ + 1,
                      !.phase = IF calc.at = Len(calc.paths) THEN "done"
                                ELSE AfterPath(res)]
    /\ UNCHANGED <<relayVars, clientVars, serveVars, config, qry, selftoken, hdr>>

NextTool ==
    \/ ToolStart
    \/ \E connectOk \in BOOLEAN : FromPathCall(connectOk)
    \/ \E f \in {DataA, Failed} : PeerSend(f, FALSE)
    \/ Receive
    \/ FromPathReturn

SpecTool == InitClient /\ [][NextTool]_vars

\* C33: the tool reports a transport, protocol or application failure on a
\* path as trouble with that path and goes on: the reports are those of the
\* paths in the order given, a call that failed or was answered with a
\* negative return code is reported as trouble, and a tool that has ended
\* has attempted every path
C33_FailureReportedAndContinued ==
    calc.fn = "owread" =>
        /\ calc.phase \in {"call", "done"}
        /\ calc.phase = "done" => Len(calc.out) = Len(calc.paths)
        /\ \A i \in 1..Len(calc.out) :
              /\ calc.out[i].path = calc.paths[i]
              /\ (calc.out[i].err # "none" \/ calc.out[i].ret < 0) =>
                     calc.out[i].printed = "trouble"

\* C34 as stated: after a call that could not connect no further path is
\* attempted
C34_FailFastOnReconnect ==
    calc.fn = "owread" =>
        \A i \in 1..Len(calc.out) :
            calc.out[i].err = "connect" =>
                /\ Len(calc.out) = i
                /\ ncalls = i

\* C34 amended: a call that could not connect is reported as trouble with
\* its path like any other failure, and the tool goes on: it never leaves
\* its loop early, and when it has ended it has attempted every path
C34_ReconnectFailureContinues ==
    calc.fn = "owread" =>
        /\ calc.phase \in {"call", "done"}
        /\ calc.phase = "done" => Len(calc.out) = Len(calc.paths)
        /\ \A i \in 1..Len(calc.out) :
              calc.out[i].err = "connect" =>
                  /\ calc.out[i].path = calc.paths[i]
                  /\ calc.out[i].printed = "trouble"

\* the first path could not connect, the second was read and printed
C34_Witness ==
    /\ calc.fn = "owread"
    /\ Len(calc.out) >= 2
    /\ calc.out[1].err = "connect"
    /\ calc.out[2].printed = "value"
    /\ calc.out[2].err = "none"
    /\ calc.out[2].ret >= 0

----------------------------------------------------------------------------
(* The console (console.rs): the threads of a program writing to stdout *)

\* the calls a thread makes: console_line(message) writes one line,
\* console_lines(lines) the lines of its argument (none, one or two here)
ConsoleCalls ==
    {[fn |-> "console_line", n |-> 1]}
        \cup {[fn |-> "console_lines", n |-> n] : n \in 0..2}

\* a lock that is handed to every caller at once
MutexFreeAlways(holder) == TRUE

\* get_handle().lock(): the caller goes on when no thread holds the guard
MutexFree(holder) == holder = 0

\* every thread is about to make its call; nothing has been written
InitConsole ==
    /\ RelayIdle /\ ServeIdle /\ ClientOff /\ selftoken = Token(EntryRelay)
    /\ hdr = NoHeader
    /\ \E calls \in [Workers -> ConsoleCalls] :
          calc = [fn |-> "console", holder |-> 0, out |-> << >>,
                  exited |-> FALSE,
                  th |-> [t \in Workers |->
                            [call |-> calls[t], pc |-> "lock", at |-> 0]]]

\* "let mut guard = get_handle().lock().expect(..)" of thread t
ConsoleLock(t) ==
    /\ calc.fn = "console"
    /\ ~calc.exited
    /\ calc.th[t].pc = "lock"
    /\ MutexFree(calc.holder)
    /\ calc' = [calc EXCEPT !.holder = t, !.th[t].pc = "write"]
    /\ UNCHANGED <<relayVars, clientVars, serveVars, config, qry, selftoken, hdr>>

\* one writeln!(guard, "{}", line) of thread t and handle_io_result: the line
\* is appended to stdout, or the write fails and the process exits
ConsoleWrite(t, ok) ==
    /\ calc.fn = "console"
    /\ ~calc.exited
    /\ calc.th[t].pc = "write"
    /\ calc.th[t].at < calc.th[t].call.n
    /\ calc' = IF ok
               THEN [calc EXCEPT !.out = Append(@, <<t, calc.th[t].at + 1>>),
                                 !.th[t].at = @ + 1]
               ELSE [calc EXCEPT !.exited = TRUE]
    /\ UNCHANGED <<relayVars, clientVars, serveVars, config, qry, selftoken, hdr>>

\* the end of console_line / console_lines: the guard is dropped
ConsoleReturn(t) ==
    /\ calc.fn = "console"
    /\ ~calc.exited
    /\ calc.th[t].pc = "write"
    /\ calc.th[t].at = calc.th[t].call.n
    /\ calc' = [calc EXCEPT !.holder = IF @ = t THEN 0 ELSE @,
                            !.th[t].pc = "done"]
    /\ UNCHANGED <<relayVars, clientVars, serveVars, config, qry, selftoken, hdr>>

NextConsole ==
    \E t \in Workers :
        \/ ConsoleLock(t)
        \/ \E ok \in BOOLEAN : ConsoleWrite(t, ok)
        \/ ConsoleReturn(t)

SpecConsole == InitConsole /\ [][NextConsole]_vars

\* C35: the lines of one call appear on stdout contiguously and in order:
\* the first line a thread has on stdout is the first of its call, a line
\* that follows a line of the same thread is the next of the call, and
\* between two lines of a thread there is no line of another thread
C35_LinesNotInterleaved ==
    calc.fn = "console" =>
        LET out == calc.out
        IN  /\ \A p \in 1..Len(out) :
                  /\ (\A r \in 1..(p - 1) : out[r][1] # out[p][1]) => out[p][2] = 1
                  /\ (p > 1 /\ out[p - 1][1] = out[p][1]) =>
                         out[p][2] = out[p - 1][2] + 1
            /\ \A p, q \in 1..Len(out) :
                  (p < q /\ out[p][1] = out[q][1]) =>
                      \A r \in p..q : out[r][1] = out[p][1]
            /\ \A t \in Workers :
                  Len(SelectSeq(out, LAMBDA l : l[1] = t)) = calc.th[t].at

\* a thread in the middle of a console_lines call holds the guard while
\* another thread, with lines to write, waits for it behind lines already
\* written
C35_Witness ==
    /\ calc.fn = "console"
    /\ \E t, u \in Workers :
          /\ t # u
          /\ calc.holder = t
          /\ calc.th[t].call.fn = "console_lines"
          /\ calc.th[t].at = 1
          /\ calc.th[t].call.n = 2
          /\ calc.th[u].pc = "lock"
          /\ calc.th[u].call.n > 0

----------------------------------------------------------------------------
(* Query frames on one stream (message/query.rs): a sender serializes      *)
(* queries back-to-back, the node at the other end reads them one by one   *)
(* with get_plus_ping under its own token.  The bytes are followed for     *)
(* queries of a few tokens; a query that arrives with as many tokens as    *)
(* the version can count is followed by the number of its tokens (Arrive). *)

\* a query as its sender holds it: the payload is the length of the content
\* and the version announces the tokens of the list
FramedQuery(version, content, toks, offset) ==
    [version |-> version, payload |-> Len(content), mtype |-> READ,
     flags |-> BUS_RET, size |-> DEFAULTSIZE, offset |-> offset,
     content |-> content, tokenlist |-> toks]

\* the token lists of the queries sent: none, the client's, the client's and
\* another relay's, the client's and the reader's own
FramedTokens ==
    {<< >>, <<Token(ClientTokenId)>>,
     <<Token(ClientTokenId), Token(MaxRelays)>>,
     <<Token(ClientTokenId), Token(EntryRelay)>>}

FramedQueries ==
    {FramedQuery(version, content, toks, offset) :
        version \in {SENDVERSION, SERVERMESSAGE, SERVERMESSAGE + 1, SERVERMESSAGE + 2},
        content \in {<< >>, <<47, 65, 0>>},
        toks \in FramedTokens,
        offset \in {0, 5}}

\* the queries whose version encodes the number of their tokens
Framed ==
    {q \in FramedQueries :
        /\ q.version \in WireVersions(Len(q.tokenlist))
        /\ q.offset = 5 => q.content # << >>}

\* nothing sent yet; the reader is the entry relay
InitFraming ==
    /\ RelayIdle /\ ServeIdle /\ ClientOff /\ selftoken = Token(EntryRelay)
    /\ hdr = NoHeader
    /\ calc = [fn |-> "framing", sent |-> << >>, stream |-> << >>,
               got |-> << >>, open |-> TRUE]

\* OwQuery::send of q: the bytes are written behind those already on the
\* stream
FrameSend(q) ==
    /\ calc.fn = "framing"
    /\ calc.open
    /\ Len(calc.sent) < MaxFrames
    /\ calc' = [calc EXCEPT !.sent = Append(@, q),
                            !.stream = @ \o QuerySend(q)]
    /\ UNCHANGED <<relayVars, clientVars, serveVars, config, qry, selftoken, hdr>>

\* OwQuery::get_plus_ping of the reader on the bytes of the stream; an Err
\* (the loop) ends the reading
FrameGet ==
    /\ calc.fn = "framing"
    /\ calc.open
    /\ calc.stream # << >>
    /\ LET r == QueryGetPlusPing(calc.stream, selftoken)
       IN  calc' = [calc EXCEPT !.got = Append(@, r),
                                !.stream = r.rest,
                                !.open = r.status = "ok"]
    /\ UNCHANGED <<relayVars, clientVars, serveVars, config, qry, selftoken, hdr>>

NextFraming ==
    \/ qry = Unbuilt /\ \E q \in Framed : FrameSend(q)
    \/ FrameGet
    \/ /\ calc.sent = << >>
       /\ \E n \in WireCounts, k \in Relays :
             \E version \in WireVersions(n) : Arrive(version, n, k)

SpecFraming == InitFraming /\ [][NextFraming]_vars

\* q with token appended and its count one higher
WithToken(q, token) ==
    [q EXCEPT !.version = SERVERMESSAGE + Len(q.tokenlist) + 1,
              !.tokenlist = Append(q.tokenlist, token)]

RECURSIVE FramesOf(_)
\* the bytes of the queries qs, back-to-back
FramesOf(qs) ==
    IF qs = << >> THEN << >> ELSE QuerySend(Head(qs)) \o FramesOf(Tail(qs))

\* the frames of a stream are received as sent, in order: the i-th query
\* read is the i-th query sent with the reader's token appended and the
\* count incremented, and the bytes left on the stream are exactly the
\* frames not yet read
FramesReceivedInOrder ==
    calc.fn = "framing" =>
        /\ Len(calc.got) <= Len(calc.sent)
        /\ \A i \in 1..Len(calc.got) :
              ~LoopDetected(calc.sent[i].tokenlist, selftoken) =>
                  /\ calc.got[i].status = "ok"
                  /\ calc.got[i].rcv = WithToken(calc.sent[i], selftoken)
        /\ calc.stream = FramesOf(Drop(calc.sent, Len(calc.got)))

\* a query that arrived with qry.wire tokens and has been read by one relay
\* is the query sent but for the relay's token behind the tokens it came
\* with and the count, which is one higher
HopAppendsToken ==
    (qry # Unbuilt /\ qry.from = "wire" /\ qry.adds = 1) =>
        /\ \E k \in Relays : qry.q.tokenlist = <<Token(k)>>
        /\ [qry.q EXCEPT !.version = 0, !.tokenlist = << >>]
              = [WireQuery(0) EXCEPT !.version = 0]
        /\ HasTokens(qry.q.version)
        /\ TokenCount(qry.q.version) = qry.wire + 1

\* C36: a query whose payload is its content length and whose version
\* encodes its token count, serialized and read at a hop whose token is not
\* in its list, is received equal in every field but for the hop's token
\* appended and the count incremented; frames sent back-to-back are received
\* as the same frames in order, no byte left unread and none read past a
\* frame's end
C36_FramingRoundTrip == FramesReceivedInOrder /\ HopAppendsToken

\* the same for the queries that arrive with fewer tokens than the 16 bits
\* of the version can count
FramingBelowLimit ==
    FramesReceivedInOrder /\ (qry # Unbuilt /\ qry.wire < SERVERTOKENS => HopAppendsToken)

----------------------------------------------------------------------------
(* A persistent client and a peer that keeps to the protocol: the peer     *)
(* answers the queries of the connection in the order it read them, each   *)
(* with pings, then the frames of the response (for dir the entries and    *)
(* the end marker, else one frame).  The content of an answer names the    *)
(* query it answers.                                                        *)

\* the data frame of the answer to the j-th query of the connection
Tagged(j) == Response(3, 0, <<Slash, 64 + j, 0>>)

\* the frames the peer may send next in its answer to a query of operation
\* mtype after part data frames
AnswerFrames(mtype, j, part) ==
    {Ping} \cup (IF mtype = DIR
                 THEN {End} \cup (IF part = 0 THEN {Tagged(j)} ELSE {})
                 ELSE {Tagged(j)})

\* the frame that ends the answer to a query of operation mtype
Terminal(mtype, f) == IF mtype = DIR THEN f.payload = 0 ELSE f.payload >= 0

\* what the peer holds before it has read a query
NoPeer == [fn |-> "peer", ops |-> << >>, clean |-> << >>, answered |-> 0,
           part |-> 0]

InitPersist == InitClient /\ persistence

\* read or dir on the persistent client
PersistCall(mtype) == persistence /\ SendPacket(mtype, TRUE, TRUE)

\* the peer reads the query the call has written; clean tells whether every
\* earlier answer had been sent and read at that time
PeerTake ==
    /\ pc = "await"
    /\ calc = NoCalc \/ (calc.fn = "peer" /\ Len(calc.ops) < written[stream])
    /\ LET old == IF calc = NoCalc THEN NoPeer ELSE calc
       IN  calc' = [old EXCEPT
                      !.ops = Append(@, cur.op),
                      !.clean = Append(@, /\ old.answered = Len(old.ops)
                                          /\ inbuf[stream] = << >>)]
    /\ UNCHANGED <<relayVars, clientVars, serveVars, config, qry, selftoken, hdr>>

\* the peer writes the next frame of its answer to the oldest query it has
\* not answered, whether the client is still reading or not
PeerAnswer(f) ==
    /\ calc.fn = "peer"
    /\ calc.answered < Len(calc.ops)
    /\ stream # 0
    /\ ~peerClosed[stream]
    /\ npeer < MaxFrames
    /\ f \in AnswerFrames(calc.ops[calc.answered + 1], calc.answered + 1, calc.part)
    /\ npeer' = npeer + 1
    /\ inbuf' = [inbuf EXCEPT ![stream] = @ \o ResponseSend(f)]
    /\ calc' = IF f.payload < 0 THEN calc
               ELSE IF Terminal(calc.ops[calc.answered + 1], f)
                    THEN [calc EXCEPT !.answered = @ + 1, !.part = 0]
                    ELSE [calc EXCEPT !.part = @ + 1]
    /\ UNCHANGED <<revision, persistence, stream, nsock, peerClosed, written, pc,
                   cur, last, ncalls, owserver, opened, relayVars, serveVars,
                   config, qry, selftoken, hdr>>

\* the receive of the call, on the bytes that have arrived when it returns
PersistReceive ==
    /\ calc.fn = "peer"
    /\ Len(calc.ops) = written[stream]
    /\ Receive

NextPersist ==
    \/ \E mtype \in {READ, DIR} : PersistCall(mtype)
    \/ PeerTake
    \/ \E f \in {Ping, End} \cup {Tagged(j) : j \in 1..MaxCalls} : PeerAnswer(f)
    \/ PersistReceive

SpecPersist == InitPersist /\ [][NextPersist]_vars

\* call number n has returned successfully
Returned(n) ==
    /\ pc = "idle"
    /\ ncalls = n
    /\ calc.fn = "peer"
    /\ last.ok
    /\ last.err = "none"

\* the result of call n is made of the answer to query n, and that answer
\* has been sent and read to its last byte
OwnAnswerConsumed(n) ==
    /\ last.content \in {<< >>, Tagged(n).content}
    /\ calc.answered = n
    /\ inbuf[stream] = << >>

\* C37: on a persistent connection to a peer that keeps to the protocol, a
\* call that returns successfully has consumed every byte of its response
\* (pings, frames, terminal frame), and the result it returns is the answer
\* to its own query, never that to another
C37_ResponseConsumedOnSuccess ==
    \A n \in 1..MaxCalls : Returned(n) => OwnAnswerConsumed(n)

\* the same for the calls made when every earlier answer had been sent and
\* read
ConsumedAfterCleanCalls ==
    \A n \in 1..MaxCalls : (Returned(n) /\ calc.clean[n]) => OwnAnswerConsumed(n)

----------------------------------------------------------------------------
(* The list dir and dirall return (client.rs dirboth), under SpecDir *)

\* C38: dir and dirall return one element per directory entry: every
\* element is a non-empty path, without pruning there are as many elements
\* as entries, and a response without content (an empty directory) gives
\* the empty list
C38_OneElementPerEntry ==
    (calc.fn = "dirboth" /\ calc.step = "listed") =>
        /\ \A i \in 1..Len(calc.res) : calc.res[i] # << >>
        /\ ~calc.prune => Len(calc.res) = Len(calc.entries)
        /\ calc.entries = << >> => calc.res = << >>

\* the same for the directories that have an entry
OneElementPerEntryGiven ==
    (calc.fn = "dirboth" /\ calc.step = "listed" /\ calc.entries # << >>) =>
        /\ \A i \in 1..Len(calc.res) : calc.res[i] # << >>
        /\ ~calc.prune => Len(calc.res) = Len(calc.entries)

----------------------------------------------------------------------------
(* The bus actor (bus_list.rs, bus_thread.rs): BusThread::spawn starts a   *)
(* thread that creates the bus and serves the BusQuery's of its channel;   *)
(* BusQuery::send of a caller queues a command with the sending end of a   *)
(* reply channel of its own and waits on the receiving end.                *)

BusCmds == {"Reset", "Status"}

\* a BusQuery: the command and my_tx, the reply channel of the k-th send of
\* caller c
BusQuery(c, k, cmd) == [my_tx |-> <<c, k>>, cmd |-> cmd]

\* an actor that serves the latest query of its channel
RxRecvLatest(chan) == Len(chan)

\* rx.recv(): the oldest query of the channel
RxRecv(chan) == 1

\* a caller that has sent nothing
NoCaller == [pc |-> "idle", sent |-> << >>, my_rx |-> << >>, out |-> << >>]

\* spawn has returned the BusHandle; the thread is about to call the factory
\* (nsent counts the commands sent, MaxCalls at most)
InitBus ==
    /\ RelayIdle /\ ServeIdle /\ ClientOff /\ selftoken = Token(EntryRelay)
    /\ hdr = NoHeader
    /\ calc = [fn |-> "bus", actor |-> "starting", chan |-> << >>,
               nsent |-> 0, arrived |-> << >>, log |-> << >>,
               cl |-> [c \in Workers |-> NoCaller]]

\* BusQuery::send up to bus.tx.send(query): Err when the actor's receiver
\* is gone, else the query is in the channel and the caller goes on to
\* my_rx.recv()
BusQuerySend(c, cmd) ==
    /\ calc.fn = "bus"
    /\ calc.cl[c].pc = "idle"
    /\ calc.nsent < MaxCalls
    /\ LET q == BusQuery(c, Len(calc.cl[c].sent) + 1, cmd)
       IN  calc' = IF calc.actor = "stopped"
                   THEN [calc EXCEPT !.nsent = @ + 1,
                                     !.cl[c].sent = Append(@, cmd),
                                     !.cl[c].out = Append(@, [kind |-> "err"])]
                   ELSE [calc EXCEPT !.nsent = @ + 1,
                                     !.cl[c].sent = Append(@, cmd),
                                     !.cl[c].pc = "recv",
                                     !.cl[c].my_rx = << >>,
                                     !.chan = Append(@, q),
                                     !.arrived = Append(@, q)]
    /\ UNCHANGED <<relayVars, clientVars, serveVars, config, qry, selftoken, hdr>>

\* the thread's factory(path): Ok starts the loop, Err ends the thread, and
\* the receiver is dropped with the queries in it
Factory(ok) ==
    /\ calc.fn = "bus"
    /\ calc.actor = "starting"
    /\ calc' = IF ok THEN [calc EXCEPT !.actor = "running"]
               ELSE [calc EXCEPT !.actor = "stopped", !.chan = << >>]
    /\ UNCHANGED <<relayVars, clientVars, serveVars, config, qry, selftoken, hdr>>

\* one turn of "while let Ok(req) = rx.recv()": bus.command(req.cmd)
\* .unwrap_or(Bad) and req.my_tx.send(result); res is the outcome of the
\* device: Ok, Err, or a panic, which ends the thread
ActorCommand(res) ==
    /\ calc.fn = "bus"
    /\ calc.actor = "running"
    /\ calc.chan # << >>
    /\ LET i   == RxRecv(calc.chan)
           req == calc.chan[i]
           c   == req.my_tx[1]
       IN  calc' = IF res = "panic"
                   THEN [calc EXCEPT !.actor = "stopped", !.chan = << >>]
                   ELSE [calc EXCEPT
                           !.chan = SubSeq(@, 1, i - 1) \o SubSeq(@, i + 1, Len(@)),
                           !.log = Append(@, req),
                           !.cl[c].my_rx =
                               Append(@, [for |-> req.my_tx, cmd |-> req.cmd,
                                          val |-> IF res = "ok" THEN "done"
                                                  ELSE "Bad"])]
    /\ UNCHANGED <<relayVars, clientVars, serveVars, config, qry, selftoken, hdr>>

\* the query of caller c is in no channel any more: its my_tx is dropped
Dropped(c) == \A i \in 1..Len(calc.chan) : calc.chan[i].my_tx[1] # c

\* my_rx.recv() of BusQuery::send: the reply, or Err when my_tx was dropped
\* without one; it blocks while the query waits in the channel
BusQueryRecv(c) ==
    /\ calc.fn = "bus"
    /\ calc.cl[c].pc = "recv"
    /\ calc.cl[c].my_rx # << >> \/ Dropped(c)
    /\ calc' = [calc EXCEPT
                  !.cl[c].pc = "idle",
                  !.cl[c].out =
                      Append(@, IF calc.cl[c].my_rx # << >>
                                THEN [kind |-> "ok", reply |-> Head(calc.cl[c].my_rx)]
                                ELSE [kind |-> "err"])]
    /\ UNCHANGED <<relayVars, clientVars, serveVars, config, qry, selftoken, hdr>>

NextBus ==
    \/ \E c \in Workers, cmd \in BusCmds : BusQuerySend(c, cmd)
    \/ \E ok \in BOOLEAN : Factory(ok)
    \/ \E res \in {"ok", "err", "panic"} : ActorCommand(res)
    \/ \E c \in Workers : BusQueryRecv(c)

\* the threads are scheduled: the actor thread runs when it can, and so
\* does a caller in recv
SpecBus ==
    /\ InitBus
    /\ [][NextBus]_vars
    /\ WF_vars(\E ok \in BOOLEAN : Factory(ok))
    /\ WF_vars(\E res \in {"ok", "err"} : ActorCommand(res))
    /\ \A c \in Workers : WF_vars(BusQueryRecv(c))

\* one outcome for every command sent, the reply to that very command or an
\* error of an actor that is gone; commands are executed one by one in the
\* order of their arrival
BusSafe ==
    calc.fn = "bus" =>
        /\ \A c \in Workers :
              LET me == calc.cl[c]
              IN  /\ Len(me.out) = Len(me.sent) - (IF me.pc = "recv" THEN 1 ELSE 0)
                  /\ Len(me.my_rx) <= 1
                  /\ \A k \in 1..Len(me.out) :
                        IF me.out[k].kind = "ok"
                        THEN /\ me.out[k].reply.for = <<c, k>>
                             /\ me.out[k].reply.cmd = me.sent[k]
                        ELSE calc.actor = "stopped"
        /\ calc.log = SubSeq(calc.arrived, 1, Len(calc.log))

\* caller c waits in BusQuery::send
InSend(c) == calc.fn = "bus" /\ calc.cl[c].pc = "recv"

\* C39: each command sent through a BusHandle yields exactly one outcome
\* to its caller, the actor's reply to that command or an error when the
\* actor could not be created or has stopped; no caller gets another's
\* reply, no caller waits for ever, and the actor executes the commands one
\* at a time in the order they arrived
C39_OneOutcomePerCommand ==
    /\ []BusSafe
    /\ \A c \in Workers : InSend(c) ~> ~InSend(c)

\* two callers had their commands in the channel together, the actor has
\* executed both and each caller has the reply to its own
C39_Witness ==
    /\ calc.fn = "bus"
    /\ Len(calc.log) = 2
    /\ calc.log[1].my_tx[1] # calc.log[2].my_tx[1]
    /\ calc.arrived[2] = calc.log[2]
    /\ \A i \in 1..2 :
          LET me == calc.cl[calc.log[i].my_tx[1]]
          IN  /\ me.out # << >>
              /\ me.out[1].kind = "ok"
              /\ me.out[1].reply.for = calc.log[i].my_tx

----------------------------------------------------------------------------
(* The relayed query at the limit of the token count, under SpecTokens *)

\* C17 for every number of inbound tokens the version can announce: the
\* query a relay sends on is the inbound one but for the relay's token,
\* appended behind the inbound tokens, and the version, which carries a
\* token count one higher than the inbound one
C17_RelayedCountOneHigher ==
    (qry # Unbuilt /\ qry.from = "wire") =>
        /\ Len(qry.q.tokenlist) = qry.adds
        /\ qry.q.content = CallPath
        /\ qry.q.payload = Len(CallPath)
        /\ HasTokens(qry.q.version)
        /\ TokenCount(qry.q.version) = qry.wire + qry.adds

=============================================================================
